---- MODULE Spec2Model ----
(***************************************************************************)
(* Reconciliation core of storygrab: the persistent per-user list cache    *)
(* (backend.py: get_books_for_user, match_books, _read_cache,              *)
(* _write_cache), the paginating deduplicating collector                   *)
(* (modules/storygraph.py: StoryGrabber.get_books) and the tiered matcher  *)
(* and aggregator of match_books.                                          *)
(*                                                                         *)
(* The specifications share the variables:                                 *)
(*   Spec          - requests against the persistent cache, one at a time, *)
(*                   with a clock, crashes and on-disk corruption;         *)
(*   SpecUsers     - the same cache with several usernames;                *)
(*   SpecCollector - one StoryGrabber.get_books call, page by page;        *)
(*   SpecSessions  - the rendering proxy's sessions under both collectors; *)
(*   SpecMatch     - the matching loop of match_books, record by record;   *)
(*   SpecNorm      - the normalizer on its inputs;                         *)
(*   SpecSlot      - the in-memory catalog slot (_get_ll_library);         *)
(*   SpecIndex     - _build_ll_index, item by item;                        *)
(*   SpecFind      - find_books_ll.                                        *)
(***************************************************************************)

EXTENDS Integers, Sequences, FiniteSets, TLC

VARIABLES
    now,        \* the wall clock, datetime.now(timezone.utc), in seconds
    fs,         \* the cache directory: path -> file content
    proc,       \* per worker: the request it is handling and how far it got
    cg,         \* the running StoryGrabber.get_books call
    mt,         \* the running matching loop of match_books
    nm,         \* the normalizer at work on its inputs
    ll,         \* the library side: catalog slot, index build, find_books_ll
    px          \* the rendering proxy's sessions and the collectors' handles

cacheVars == <<now, fs, proc>>
vars == <<now, fs, proc, cg, mt, nm, ll, px>>

-----------------------------------------------------------------------------
(* Bounds of the model.                                                    *)

\* the clock runs 0..MaxTime
MaxTime == 3
\* number of request workers
NumProcs == 1

Procs == 1..NumProcs
Times == 0..MaxTime

\* ttl values a request may carry (query parameter / body field "ttl")
TTLs == {0, 1, 2}

\* usernames, as sequences of characters; <<>> is a missing username
Users == {<<"a">>}
NoUser == <<>>

\* what the collector may return to the cache layer (lists of scraped books)
BookLists == {<<>>, <<"b1">>}

-----------------------------------------------------------------------------
(* Paths and file contents.                                                *)

SafeChars == {"a", "b", "_", ".", "-"}

\* _safe_name: every character outside [A-Za-z0-9_.-] becomes "_"
SafeName(name) ==
    [i \in DOMAIN name |-> IF name[i] \in SafeChars THEN name[i] ELSE "_"]

\* _cache_path_for: <cache dir>/<safe name>.json
CachePathFor(username) == [name |-> SafeName(username), ext |-> "json"]

\* a variant of the temp path that writes the cache file in place
TmpPathInPlace(username) == CachePathFor(username)

\* tmp = p.with_suffix(".tmp") in _write_cache
TmpPathFor(username) == [name |-> SafeName(username), ext |-> "tmp"]

Paths == {CachePathFor(u) : u \in Users} \cup {TmpPathFor(u) : u \in Users}

\* a fetched_at value as found in a file: an ISO-8601 string with offset
\* ("iso"), one without offset ("naive"), a string that is no timestamp
\* ("bad"), a non-string JSON value ("nonstr"), or missing/null/"" ("none")
NoFa == [tag |-> "none", t |-> 0]
BadFa == [tag |-> "bad", t |-> 0]
NonStrFa == [tag |-> "nonstr", t |-> 0]
NaiveFa(t) == [tag |-> "naive", t |-> t]

\* datetime.now(timezone.utc).isoformat()
IsoFormat(t) == [tag |-> "iso", t |-> t]

\* datetime.fromisoformat(s): raises on a non-string or a malformed string
FromIsoFormat(s) ==
    CASE s.tag = "iso" -> [ok |-> TRUE, aware |-> TRUE, t |-> s.t]
      [] s.tag = "naive" -> [ok |-> TRUE, aware |-> FALSE, t |-> s.t]
      [] OTHER -> [ok |-> FALSE, aware |-> FALSE, t |-> 0]

\* File contents.  kind:
\*   "absent"     no file at the path
\*   "object"     a complete JSON object {username, fetched_at, books}
\*   "nondict"    valid JSON that is a non-empty list, a string or a number
\*   "falsy"      valid JSON that is null, [], {}, 0 or ""
\*   "notjson"    bytes that are not JSON
\*   "unreadable" open() or read() raises
\*   "empty"      a file opened for writing and not yet written
\*   "partial"    a proper prefix of a JSON object's text
Blank(kind) == [kind |-> kind, username |-> NoUser, fa |-> NoFa, books |-> <<>>]
Absent == Blank("absent")

\* the dict built at backend.py:262-266, as json.dump writes it
EntryData(username, t, books) ==
    [kind |-> "object", username |-> username, fa |-> IsoFormat(t),
     books |-> books]

\* contents that corruption of the disk or a foreign writer can leave
CorruptContents ==
    {Blank(k) : k \in {"notjson", "unreadable", "nondict", "falsy"}}
    \cup {[kind |-> "object", username |-> NoUser, fa |-> f, books |-> <<>>] :
            f \in {NoFa, BadFa, NonStrFa, NaiveFa(0)}}

None == Blank("none")

\* _read_cache: None when the file is missing, unreadable or not JSON,
\* else whatever json.load returns
ReadCache(username) ==
    LET c == fs[CachePathFor(username)] IN
    IF c.kind \in {"absent", "unreadable", "notjson", "empty", "partial"}
    THEN None
    ELSE c

\* a mutated freshness test: strict comparison
FreshStrict(t, fetched, ttl) == t - fetched < ttl

\* datetime.now(timezone.utc) - fetched_time <= timedelta(seconds=ttl)
Fresh(t, fetched, ttl) == t - fetched <= ttl

\* The cache lookup shared by get_books_for_user (backend.py:23-38) and
\* match_books (backend.py:75-91): "hit", "miss" or "raise".
\*   - None and falsy values fail `cached and ...`
\*   - a truthy value without .get raises AttributeError outside the try
\*   - fromisoformat errors and naive-aware subtraction are caught
CacheLookup(cached, t, ttl) ==
    IF cached.kind \in {"none", "falsy"} THEN "miss"
    ELSE IF cached.kind = "nondict" THEN "raise"
    ELSE IF cached.fa.tag = "none" THEN "miss"
    ELSE LET parsed == FromIsoFormat(cached.fa) IN
         IF ~parsed.ok \/ ~parsed.aware THEN "miss"
         ELSE IF Fresh(t, parsed.t, ttl) THEN "hit" ELSE "miss"

-----------------------------------------------------------------------------
(* Requests.                                                               *)

NoResp == [status |-> 0, cached |-> "none", fetched_at |-> NoFa, books |-> <<>>]

IdleProc ==
    [pc |-> "idle", handler |-> "none", user |-> NoUser,
     rq |-> FALSE, rb |-> FALSE,
     seen |-> Absent, within |-> FALSE,
     coll |-> "none", books |-> <<>>, data |-> Absent,
     crashedAt |-> "none", resp |-> NoResp]

\* The fields seen, within, coll and crashedAt record history for the
\* properties; no action reads them.
\*   seen    the content of the user's cache file when the request arrived
\*   within  that content is an entry written at T and the request arrived
\*           at a time <= T + ttl
WrittenAt(c) == c.kind = "object" /\ c.fa.tag = "iso"
WithinTtl(c, t, ttl) == WrittenAt(c) /\ t <= c.fa.t + ttl

AllIdle == \A q \in Procs : proc[q].pc = "idle"

InitCache ==
    /\ now = 0
    /\ fs = [p \in Paths |-> Absent]
    /\ proc = [p \in Procs |-> IdleProc]

\* the clock advances
Tick ==
    /\ now < MaxTime
    /\ now' = now + 1
    /\ UNCHANGED <<fs, proc, cg, mt, nm, ll, px>>

\* the disk, or a foreign writer, damages a user's cache file
Corrupt(u, c) ==
    /\ AllIdle
    /\ fs[CachePathFor(u)] # c
    /\ fs' = [fs EXCEPT ![CachePathFor(u)] = c]
    /\ UNCHANGED <<now, proc, cg, mt, nm, ll, px>>

-----------------------------------------------------------------------------
(* get_books_for_user and match_books, up to the cache decision.           *)

\* refresh as match_books computes it (backend.py:56-62): body or query
RefreshFlag(rq, rb) == rb \/ rq

\* the guard of the cache read in match_books (backend.py:74):
\* `if not bool(data.get("refresh"))` - the body field alone
MatchBypassesCache(rq, rb) == rb

\* the guard of the cache read in get_books_for_user (backend.py:20-22)
GetBypassesCache(rq) == rq

Response(status, cached, fa, books) ==
    [status |-> status, cached |-> cached, fetched_at |-> fa, books |-> books]

\* GET /api/get_books/<username>, backend.py:14-38
GetBooksStart(p, u, ttl, rq) ==
    /\ AllIdle
    /\ LET cached == IF GetBypassesCache(rq) THEN None ELSE ReadCache(u)
           look == IF GetBypassesCache(rq) THEN "miss"
                   ELSE CacheLookup(cached, now, ttl)
           base == [IdleProc EXCEPT !.handler = "get_books", !.user = u,
                       !.rq = rq, !.seen = fs[CachePathFor(u)],
                       !.within = WithinTtl(fs[CachePathFor(u)], now, ttl)]
       IN proc' = [proc EXCEPT ![p] =
            CASE look = "hit" ->
                   [base EXCEPT !.pc = "done",
                       !.resp = Response(200, "true", cached.fa, cached.books)]
              [] look = "raise" ->
                   [base EXCEPT !.pc = "done",
                       !.resp = Response(500, "none", NoFa, <<>>)]
              [] OTHER -> [base EXCEPT !.pc = "fetch"]]
    /\ UNCHANGED <<now, fs, cg, mt, nm, ll, px>>

\* POST /api/match_books, backend.py:49-94 and, on a cache hit, 102-228
MatchBooksStart(p, u, ttl, rq, rb, key) ==
    /\ AllIdle
    /\ LET bypass == MatchBypassesCache(rq, rb)
           cached == IF bypass \/ u = NoUser THEN None ELSE ReadCache(u)
           look == IF u = NoUser THEN "nouser"
                   ELSE IF bypass THEN "miss"
                   ELSE CacheLookup(cached, now, ttl)
           seen == IF u = NoUser THEN Absent ELSE fs[CachePathFor(u)]
           base == [IdleProc EXCEPT !.handler = "match_books", !.user = u,
                       !.rq = rq, !.rb = rb, !.seen = seen,
                       !.within = WithinTtl(seen, now, ttl)]
       IN proc' = [proc EXCEPT ![p] =
            CASE look = "nouser" ->
                   [base EXCEPT !.pc = "done",
                       !.resp = Response(400, "none", NoFa, <<>>)]
              [] look = "hit" ->
                   [base EXCEPT !.pc = "done", !.books = cached.books,
                       !.resp = IF key
                                THEN Response(200, "true", cached.fa, cached.books)
                                ELSE Response(400, "none", NoFa, <<>>)]
              [] look = "raise" ->
                   [base EXCEPT !.pc = "done",
                       !.resp = Response(500, "none", NoFa, <<>>)]
              [] OTHER -> [base EXCEPT !.pc = "fetch"]]
    /\ UNCHANGED <<now, fs, cg, mt, nm, ll, px>>

\* storygraph.StoryGrabber(username).get_books() or [] (backend.py:41, 97):
\* the collector returns a list
CollectOk(p, books) ==
    /\ proc[p].pc = "fetch"
    /\ proc' = [proc EXCEPT ![p].pc = "write", ![p].coll = "ok",
                            ![p].books = books]
    /\ UNCHANGED <<now, fs, cg, mt, nm, ll, px>>

\* ... or raises (session creation fails, the first page is not 200:
\* storygraph.py:32-38, 209); the exception leaves the handler
CollectRaises(p) ==
    /\ proc[p].pc = "fetch"
    /\ proc' = [proc EXCEPT ![p].pc = "done", ![p].coll = "raised",
                            ![p].resp = Response(500, "none", NoFa, <<>>)]
    /\ UNCHANGED <<now, fs, cg, mt, nm, ll, px>>

-----------------------------------------------------------------------------
(* _write_cache, step by step (backend.py:259-270).                        *)

\* data = {...}; tmp.open("w"): the temp file exists and is empty
WriteCacheOpen(p) ==
    /\ proc[p].pc = "write"
    /\ proc' = [proc EXCEPT ![p].pc = "opened",
                   ![p].data = EntryData(proc[p].user, now, proc[p].books)]
    /\ fs' = [fs EXCEPT ![TmpPathFor(proc[p].user)] = Blank("empty")]
    /\ UNCHANGED <<now, cg, mt, nm, ll, px>>

\* json.dump has written part of the text
WriteCacheDump(p) ==
    /\ proc[p].pc = "opened"
    /\ proc' = [proc EXCEPT ![p].pc = "dumping"]
    /\ fs' = [fs EXCEPT ![TmpPathFor(proc[p].user)] = Blank("partial")]
    /\ UNCHANGED <<now, cg, mt, nm, ll, px>>

\* json.dump has written all of it and the with-block closed the file
WriteCacheClose(p) ==
    /\ proc[p].pc = "dumping"
    /\ proc' = [proc EXCEPT ![p].pc = "dumped"]
    /\ fs' = [fs EXCEPT ![TmpPathFor(proc[p].user)] = proc[p].data]
    /\ UNCHANGED <<now, cg, mt, nm, ll, px>>

\* tmp.replace(p): rename the temp file onto the cache file
WriteCacheReplace(p) ==
    /\ proc[p].pc = "dumped"
    /\ LET src == TmpPathFor(proc[p].user)
           dst == CachePathFor(proc[p].user)
       IN fs' = IF src = dst THEN fs
                ELSE [fs EXCEPT ![dst] = fs[src], ![src] = Absent]
    /\ proc' = [proc EXCEPT ![p].pc = "written"]
    /\ UNCHANGED <<now, cg, mt, nm, ll, px>>

\* the rest of the handler after _write_cache returned:
\* backend.py:43-45 (get_books) and 99-114, 219-228 (match_books)
Respond(p, key) ==
    /\ proc[p].pc = "written"
    /\ proc' = [proc EXCEPT ![p].pc = "done",
                   ![p].resp =
                      IF proc[p].handler = "match_books" /\ ~key
                      THEN Response(400, "none", NoFa, <<>>)
                      ELSE Response(200, "false", proc[p].data.fa,
                                    proc[p].books)]
    /\ UNCHANGED <<now, fs, cg, mt, nm, ll, px>>

InFlight == {"fetch", "write", "opened", "dumping", "dumped", "written"}

\* the process dies in the middle of a request
Crash(p) ==
    /\ proc[p].pc \in InFlight
    /\ proc' = [proc EXCEPT ![p].pc = "crashed", ![p].crashedAt = proc[p].pc]
    /\ UNCHANGED <<now, fs, cg, mt, nm, ll, px>>

\* the response has been sent (or the worker restarted): the worker is free
Finish(p) ==
    /\ proc[p].pc \in {"done", "crashed"}
    /\ proc' = [proc EXCEPT ![p] = IdleProc]
    /\ UNCHANGED <<now, fs, cg, mt, nm, ll, px>>


-----------------------------------------------------------------------------
(* Specification of the persistent cache.                                  *)

CgIdle == [pc |-> "idle"]
MtIdle == [pc |-> "idle"]
NmIdle == [pc |-> "idle"]
LlIdle == [pc |-> "idle"]
PxIdle == [pc |-> "idle"]

\* the parts of the state a specification leaves alone
OthersIdle == nm = NmIdle /\ ll = LlIdle /\ px = PxIdle

Init ==
    /\ InitCache
    /\ cg = CgIdle
    /\ mt = MtIdle
    /\ OthersIdle

Next ==
    \/ Tick
    \/ \E u \in Users, c \in CorruptContents : Corrupt(u, c)
    \/ \E p \in Procs, u \in Users, ttl \in TTLs, rq \in BOOLEAN :
          GetBooksStart(p, u, ttl, rq)
    \/ \E p \in Procs, u \in Users \cup {NoUser}, ttl \in TTLs,
          rq \in BOOLEAN, rb \in BOOLEAN, key \in BOOLEAN :
          MatchBooksStart(p, u, ttl, rq, rb, key)
    \/ \E p \in Procs, b \in BookLists : CollectOk(p, b)
    \/ \E p \in Procs : CollectRaises(p)
    \/ \E p \in Procs : WriteCacheOpen(p)
    \/ \E p \in Procs : WriteCacheDump(p)
    \/ \E p \in Procs : WriteCacheClose(p)
    \/ \E p \in Procs : WriteCacheReplace(p)
    \/ \E p \in Procs, key \in BOOLEAN : Respond(p, key)
    \/ \E p \in Procs : Crash(p)
    \/ \E p \in Procs : Finish(p)

Spec == Init /\ [][Next]_vars


-----------------------------------------------------------------------------
(* Properties of the persistent cache (checked under Spec).                *)

Answered(p) == proc[p].pc = "done"
UserFile(p) == fs[CachePathFor(proc[p].user)]

\* the request was answered from the entry it found, and touched nothing
ServedFromCache(p) ==
    /\ proc[p].coll = "none"
    /\ proc[p].resp =
         Response(200, "true", proc[p].seen.fa, proc[p].seen.books)
    /\ UserFile(p) = proc[p].seen

\* the request rewrote the user's entry with what the collector returned
Rewrote(p) ==
    /\ proc[p].coll = "ok"
    /\ UserFile(p) = proc[p].data
    /\ UserFile(p) = EntryData(proc[p].user, proc[p].data.fa.t, proc[p].books)

\* ... and answered with the fresh list
AnsweredFresh(p) ==
    /\ Rewrote(p)
    /\ proc[p].resp = Response(200, "false", proc[p].data.fa, proc[p].books)

\* the collector raised: the request failed and the file is as it was
CollectorFailed(p) ==
    /\ proc[p].coll = "raised"
    /\ proc[p].resp.status = 500
    /\ UserFile(p) = proc[p].seen

PlainGetBooks(p) ==
    /\ Answered(p)
    /\ proc[p].handler = "get_books"
    /\ ~proc[p].rq
    /\ WrittenAt(proc[p].seen)

\* C1 as stated: a get_books request without refresh that finds an entry
\* written at T is served from it (cached=true, same books and fetched_at,
\* no collector call) when it arrives at a time <= T + ttl, and otherwise
\* calls the collector, rewrites the entry with a later fetched_at and
\* answers cached=false.
C1_TtlAsStated ==
    \A p \in Procs : PlainGetBooks(p) =>
        IF proc[p].within
        THEN ServedFromCache(p)
        ELSE AnsweredFresh(p) /\ proc[p].data.fa.t > proc[p].seen.fa.t

\* C1 amended: as C1, except that after expiry the rewrite and the
\* cached=false answer happen when the collector call returns; when the
\* collector raises, the request fails and the entry stays as it was.
C1_Ttl ==
    \A p \in Procs : PlainGetBooks(p) =>
        IF proc[p].within
        THEN ServedFromCache(p)
        ELSE \/ AnsweredFresh(p) /\ proc[p].data.fa.t > proc[p].seen.fa.t
             \/ CollectorFailed(p)

\* an expired entry was refetched and rewritten
C1_Witness ==
    \E p \in Procs :
        /\ PlainGetBooks(p)
        /\ ~proc[p].within
        /\ AnsweredFresh(p)
        /\ proc[p].data.fa.t > proc[p].seen.fa.t
        /\ proc[p].books # proc[p].seen.books

\* C2: a get_books or match_books request that asks for refresh (query
\* parameter, or body field for match_books) and finds an entry of any age
\* calls the collector, never reports cached=true, and rewrites the user's
\* entry once the collector has returned.
C2_RefreshForcesMiss ==
    \A p \in Procs :
        (/\ Answered(p)
         /\ proc[p].user # NoUser
         /\ proc[p].rq \/ proc[p].rb
         /\ WrittenAt(proc[p].seen))
        => /\ proc[p].coll # "none"
           /\ proc[p].resp.cached # "true"
           /\ proc[p].coll = "ok" =>
                 Rewrote(p) /\ proc[p].resp.fetched_at \in {proc[p].data.fa, NoFa}

\* the file found by the request is missing, unreadable, not JSON, JSON of
\* another shape, or an object whose fetched_at is missing or no timestamp
FoundCorrupt(p) ==
    \/ proc[p].seen.kind \in {"absent", "unreadable", "notjson", "nondict",
                              "falsy"}
    \/ proc[p].seen.kind = "object" /\ proc[p].seen.fa.tag # "iso"

\* C3: a request (without refresh) that finds a missing or corrupt cache
\* file behaves as on a miss: it calls the collector and, once the collector
\* has returned, rewrites the entry and answers; it never fails before the
\* collector call.
C3_CorruptionIsMiss ==
    \A p \in Procs :
        (/\ Answered(p)
         /\ proc[p].user # NoUser
         /\ ~proc[p].rq /\ ~proc[p].rb
         /\ FoundCorrupt(p))
        => /\ proc[p].coll # "none"
           /\ proc[p].coll = "ok" => Rewrote(p) /\ proc[p].resp.status # 500

BeforeRename == {"fetch", "write", "opened", "dumping", "dumped"}

\* C4: while _write_cache has not completed the rename, and after a crash
\* at any such point, the user's cache file is what it was before the
\* write (a complete entry, or absent); a cache file is never an empty or
\* partially written file.
C4_AtomicWrite ==
    /\ \A p \in Procs :
          (\/ proc[p].pc \in BeforeRename
           \/ proc[p].pc = "crashed" /\ proc[p].crashedAt \in BeforeRename)
          => UserFile(p) = proc[p].seen
    /\ \A u \in Users : fs[CachePathFor(u)].kind \notin {"empty", "partial"}

\* a crash in the middle of json.dump, over an existing entry
C4_Witness ==
    \E p \in Procs :
        /\ proc[p].pc = "crashed"
        /\ proc[p].crashedAt = "dumping"
        /\ fs[TmpPathFor(proc[p].user)].kind = "partial"
        /\ WrittenAt(proc[p].seen)
        /\ UserFile(p) = proc[p].seen


-----------------------------------------------------------------------------
(* The collector: StoryGrabber.get_books (modules/storygraph.py:55-213).   *)
(* Strings are sequences of one-character strings.                         *)

\* sites in the model have at most MaxSitePages pages
MaxSitePages == 2

\* max_pages = 50, the cap of the iterative fallback (storygraph.py:143)
MaxPagesCap == 50
\* the page size of the remote listing (storygraph.py:86-88)
PageSize == 10

\* HTTP statuses the rendering proxy answers with
Statuses == {200, 204, 500}

\* counts the first page may announce ("<N> books")
Counts == {0, 1, 10, 11, 21}

\* "https://app.thestorygraph.com"
Host == <<"h">>

\* decimal numerals, for the records of an endless listing
Numeral == <<"1", "2", "3", "4", "5", "6", "7", "8", "9", "10", "11", "12", "13", "14", "15", "16", "17", "18", "19", "20", "21", "22", "23", "24", "25", "26", "27", "28", "29", "30", "31", "32", "33", "34", "35", "36", "37", "38", "39", "40", "41", "42", "43", "44", "45", "46", "47", "48", "49", "50", "51", "52", "53", "54", "55", "56", "57", "58", "59", "60">>

\* a book block as BeautifulSoup hands it over: whether it holds a link,
\* the link's href and text, and the author link's text
Block(link, href, title, author) ==
    [link |-> link, href |-> href, title |-> title, author |-> author]

bA == Block(TRUE, <<"/", "x">>, <<"t">>, <<"a">>)
bA2 == Block(TRUE, <<"h", "/", "x">>, <<"u">>, <<"a">>)
bB == Block(TRUE, <<"/", "y">>, <<"u">>, <<>>)
bN1 == Block(TRUE, <<>>, <<"t">>, <<"a">>)
bN2 == Block(TRUE, <<>>, <<"t", "|">>, <<>>)
bN3 == Block(TRUE, <<>>, <<"t">>, <<"|">>)
bNoTitle == Block(TRUE, <<"/", "z">>, <<>>, <<"a">>)
bNoLink == Block(FALSE, <<>>, <<>>, <<>>)

\* the pages a finite site is made of
PageSet ==
    { <<>>, <<bA>>, <<bA, bA2>>, <<bB, bA>>, <<bA2, bB>>, <<bN1, bN1>>,
      <<bN2, bN3>>, <<bNoTitle, bN1>>, <<bNoLink, bB>> }

Sites == UNION {[1..n -> PageSet] : n \in 0..MaxSitePages}

\* page k of an endless listing: a record never seen before, followed by
\* the previous page's record once more
FreshBlock(k) == Block(TRUE, <<"/", Numeral[k]>>, <<"n", Numeral[k]>>, <<>>)
EndlessPage(k) ==
    IF k > 1 THEN <<FreshBlock(k), FreshBlock(k - 1)>> ELSE <<FreshBlock(k)>>

\* what the remote source holds at ?page=k
SitePage(c, k) ==
    IF c.endless THEN EndlessPage(k)
    ELSE IF k <= Len(c.pages) THEN c.pages[k] ELSE <<>>

\* book_url: a href starting with "/" gets the host in front
\* (storygraph.py:242-244)
BookUrl(href) ==
    IF href # <<>> /\ href[1] = "/" THEN Host \o href ELSE href

\* the tuple appended to found (storygraph.py:261)
RecordOf(b) == <<BookUrl(b.href), b.title, b.author>>

\* a variant of the identifier that ignores the url
IdentifierByTitle(url, title, author) == title \o <<"|">> \o author

\* identifier = book_url or f"{book_title}|{author}" (storygraph.py:256)
Identifier(url, title, author) ==
    IF url # <<>> THEN url ELSE title \o <<"|">> \o author

\* a block yields a record when it has a link and a non-empty title
\* (storygraph.py:239-240, 253-254)
YieldsRecord(b) == b.link /\ b.title # <<>>

\* _extract_books_from_soup(soup, seen_books), storygraph.py:215-263:
\* the loop over the blocks from block i on, with the records found so far
RECURSIVE ExtractFrom(_, _, _, _)
ExtractFrom(blocks, i, found, seen) ==
    IF i > Len(blocks) THEN [found |-> found, seen |-> seen]
    ELSE LET b == blocks[i]
             r == RecordOf(b)
             id == Identifier(r[1], r[2], r[3])
         IN IF ~YieldsRecord(b) \/ id \in seen
            THEN ExtractFrom(blocks, i + 1, found, seen)
            ELSE ExtractFrom(blocks, i + 1, Append(found, r), seen \cup {id})

ExtractBooksFromSoup(blocks, seen) == ExtractFrom(blocks, 1, <<>>, seen)

\* a variant of the page count that drops the last, partly filled page
IterationsFloor(count) == count \div PageSize

\* iterations = book_count // 10, plus one for a remainder
\* (storygraph.py:86-88)
Iterations(count) ==
    (count \div PageSize) + (IF count % PageSize # 0 THEN 1 ELSE 0)

CgStart(endless, pages, marker, count) ==
    [pc |-> "start", endless |-> endless, pages |-> pages,
     marker |-> marker, count |-> count, mode |-> "none",
     iterations |-> 0, i |-> 0, page_num |-> 0,
     books |-> <<>>, seen_books |-> {},
     reqs |-> <<>>, stats |-> <<>>, news |-> <<>>,
     processed |-> <<>>, result |-> <<>>]

\* reqs, stats, news and processed record history for the properties: the
\* page numbers requested so far (0 is the first request, without ?page=),
\* the status each request was answered with, the records each request
\* added to books, and the blocks of the pages handed to
\* _extract_books_from_soup, in order.

InitCollector ==
    /\ InitCache
    /\ mt = MtIdle
    /\ OthersIdle
    /\ \E endless \in BOOLEAN, marker \in {"count", "garbled", "absent"} :
       \E pages \in (IF endless THEN {<<>>} ELSE Sites) :
       \E count \in (IF marker = "count" THEN Counts ELSE {0}) :
          cg = CgStart(endless, pages, marker, count)

\* the first request and the choice of algorithm (storygraph.py:58-90,
\* 125-143, 206-213)
FirstPage(status) ==
    /\ cg.pc = "start"
    /\ cg' =
         LET c == [cg EXCEPT !.reqs = <<0>>, !.stats = <<status>>,
                             !.news = <<<<>>>>] IN
         IF status # 200
         THEN IF status >= 400
              THEN [c EXCEPT !.pc = "raised"]
              ELSE [c EXCEPT !.pc = "returned", !.result = <<>>]
         ELSE CASE cg.marker = "count" ->
                     [c EXCEPT !.pc = "count", !.mode = "count",
                               !.iterations = Iterations(cg.count)]
                [] cg.marker = "garbled" ->
                     [c EXCEPT !.pc = "returned", !.result = <<>>]
                [] OTHER ->
                     [c EXCEPT !.pc = "explore", !.mode = "explore",
                               !.page_num = 1]
    /\ UNCHANGED <<now, fs, proc, mt, nm, ll, px>>

\* a variant of the count-driven loop that gives up at the first page
\* that fails
BreakAfterFailedPage(c) == [c EXCEPT !.i = c.iterations]

\* `continue` after a page that is not answered with 200
\* (storygraph.py:105-109): the loop goes on with the next page
ContinueAfterFailedPage(c) == c

\* one iteration of the count-driven loop (storygraph.py:93-119)
CountPage(status) ==
    /\ cg.pc = "count"
    /\ cg.i < cg.iterations
    /\ LET page_num == cg.i + 1
           blocks == SitePage(cg, page_num)
           ex == ExtractBooksFromSoup(blocks, cg.seen_books)
           c == [cg EXCEPT !.i = cg.i + 1, !.page_num = page_num,
                           !.reqs = Append(cg.reqs, page_num),
                           !.stats = Append(cg.stats, status),
                           !.news = Append(cg.news,
                                      IF status = 200 THEN ex.found ELSE <<>>)]
       IN cg' = IF status # 200 THEN ContinueAfterFailedPage(c)
                ELSE [c EXCEPT !.books = cg.books \o ex.found,
                               !.seen_books = ex.seen,
                               !.processed = cg.processed \o blocks]
    /\ UNCHANGED <<now, fs, proc, mt, nm, ll, px>>

\* the loop is over: return books (storygraph.py:121-124)
CountReturn ==
    /\ cg.pc = "count"
    /\ cg.i = cg.iterations
    /\ cg' = [cg EXCEPT !.pc = "returned", !.result = cg.books]
    /\ UNCHANGED <<now, fs, proc, mt, nm, ll, px>>

\* a variant of the loop condition that lets one more page through
ExploreMayOvershoot(page_num) == page_num <= MaxPagesCap + 1

\* while page_num <= max_pages (storygraph.py:145)
ExploreMayFetch(page_num) == page_num <= MaxPagesCap

\* a variant of the stop rule that goes on after a page without new
\* records
ExploreStopsOnFailureOnly(found) == FALSE

\* `if not new_books: ... break` (storygraph.py:166-170)
ExploreStopsWithout(found) == found = <<>>

\* one iteration of the iterative fallback (storygraph.py:145-175)
ExplorePage(status) ==
    /\ cg.pc = "explore"
    /\ ExploreMayFetch(cg.page_num)
    /\ LET blocks == SitePage(cg, cg.page_num)
           ex == ExtractBooksFromSoup(blocks, cg.seen_books)
           c == [cg EXCEPT !.reqs = Append(cg.reqs, cg.page_num),
                           !.stats = Append(cg.stats, status),
                           !.news = Append(cg.news,
                                      IF status = 200 THEN ex.found ELSE <<>>)]
       IN cg' = IF status # 200 THEN [c EXCEPT !.pc = "explored"]
                ELSE IF ExploreStopsWithout(ex.found)
                THEN [c EXCEPT !.pc = "explored", !.seen_books = ex.seen,
                               !.processed = cg.processed \o blocks]
                ELSE [c EXCEPT !.books = cg.books \o ex.found,
                               !.seen_books = ex.seen,
                               !.processed = cg.processed \o blocks,
                               !.page_num = cg.page_num + 1]
    /\ UNCHANGED <<now, fs, proc, mt, nm, ll, px>>

\* after the loop: return books, or [] when there are none
\* (storygraph.py:177-181, 211-213)
ExploreReturn ==
    /\ \/ cg.pc = "explored"
       \/ cg.pc = "explore" /\ ~ExploreMayFetch(cg.page_num)
    /\ cg' = [cg EXCEPT !.pc = "returned",
                        !.result = IF cg.books # <<>> THEN cg.books ELSE <<>>]
    /\ UNCHANGED <<now, fs, proc, mt, nm, ll, px>>

NextCollector ==
    \/ \E status \in Statuses : FirstPage(status)
    \/ \E status \in Statuses : CountPage(status)
    \/ CountReturn
    \/ \E status \in Statuses : ExplorePage(status)
    \/ ExploreReturn

\* the call runs to its end: every request returns (the client times out)
SpecCollector ==
    InitCollector /\ [][NextCollector]_vars /\ WF_vars(NextCollector)

CollectorOver == cg.pc \in {"returned", "raised"}


-----------------------------------------------------------------------------
(* Properties of the collector (checked under SpecCollector).              *)

\* the identity of a record: its url if non-empty, else title|author
IdentityOf(r) == IF r[1] # <<>> THEN r[1] ELSE r[2] \o <<"|">> \o r[3]

\* the records of the blocks handed to the extractor, in order, with
\* repetitions
RECURSIVE RecordsOf(_)
RecordsOf(blocks) ==
    IF blocks = <<>> THEN <<>>
    ELSE (IF YieldsRecord(Head(blocks)) THEN <<RecordOf(Head(blocks))>>
          ELSE <<>>) \o RecordsOf(Tail(blocks))

\* position i holds the first occurrence of its identity
IsFirstOccurrence(rs, i) ==
    \A j \in 1..(i - 1) : IdentityOf(rs[j]) # IdentityOf(rs[i])

\* rs without the later occurrences of each identity
RECURSIVE FirstOccurrencesFrom(_, _)
FirstOccurrencesFrom(rs, i) ==
    IF i > Len(rs) THEN <<>>
    ELSE (IF IsFirstOccurrence(rs, i) THEN <<rs[i]>> ELSE <<>>)
         \o FirstOccurrencesFrom(rs, i + 1)

NoRepeatedIdentity(bs) ==
    \A i, j \in DOMAIN bs : i # j => IdentityOf(bs[i]) # IdentityOf(bs[j])

\* C5: at every point of a get_books call, and in what it returns, every
\* identity met on the processed pages appears exactly once, at the place
\* of its first occurrence.
C5_Dedup ==
    /\ NoRepeatedIdentity(cg.books)
    /\ cg.books = FirstOccurrencesFrom(RecordsOf(cg.processed), 1)
    /\ cg.pc = "returned" /\ cg.mode # "none" => cg.result = cg.books

\* a call returned a list after dropping a record repeated within a page
\* and one repeated across pages
C5_Witness ==
    /\ cg.pc = "returned"
    /\ Len(cg.result) >= 2
    /\ Len(RecordsOf(cg.processed)) >= Len(cg.result) + 2
    /\ \E i, j \in DOMAIN cg.processed :
          /\ i < j
          /\ YieldsRecord(cg.processed[i]) /\ YieldsRecord(cg.processed[j])
          /\ RecordOf(cg.processed[i]) # RecordOf(cg.processed[j])
          /\ IdentityOf(RecordOf(cg.processed[i]))
               = IdentityOf(RecordOf(cg.processed[j]))

\* the paginated requests (?page=k) among the requests made
PagedRequests == Cardinality({i \in DOMAIN cg.reqs : cg.reqs[i] # 0})

\* C6 as stated: in exploratory mode the call never fetches more than 50
\* pages.
C6_CapAsStated == cg.mode = "explore" => Len(cg.reqs) <= MaxPagesCap

\* C6 amended: the call ends, and in exploratory mode it makes at most 50
\* paginated requests (?page=1..50) after the first, unpaginated request:
\* 51 requests in all.
C6_Cap ==
    /\ [](cg.mode = "explore" =>
            /\ PagedRequests <= MaxPagesCap
            /\ Len(cg.reqs) <= MaxPagesCap + 1
            /\ \A i \in DOMAIN cg.reqs : cg.reqs[i] <= MaxPagesCap)
    /\ <>CollectorOver

\* an endless listing was cut off at the cap
C6_Witness ==
    /\ cg.pc = "returned"
    /\ cg.mode = "explore"
    /\ cg.endless
    /\ PagedRequests = MaxPagesCap
    /\ Len(cg.result) = MaxPagesCap


-----------------------------------------------------------------------------
(* The normalizer, the catalog index and the matching loop of match_books  *)
(* (backend.py:121-217, 673-697).                                          *)

\* catalogs in the model hold at most MaxCatalog items
MaxCatalog == 2

\* a variant of str.lower() that leaves the letters as they are
LowerNot(ch) == ch

\* str.lower() on the letters of the model's alphabet
Lower(ch) ==
    CASE ch = "A" -> "a"
      [] ch = "B" -> "b"
      [] ch = "C" -> "c"
      [] OTHER -> ch

\* the characters [a-z0-9 ] keeps
Kept == {"a", "b", "c", "d", "e", "f", "g", "h", "i", "j", "k", "l", "m", "n", "o", "p", "q", "r", "s", "t", "u", "v", "w", "x", "y", "z", "0", "1", "2", "3", "4", "5", "6", "7", "8", "9", " "}

\* re.sub(r"[^a-z0-9 ]", " ", s.lower())
Substituted(s) ==
    [i \in DOMAIN s |-> IF Lower(s[i]) \in Kept THEN Lower(s[i]) ELSE " "]

\* str.split(): the maximal runs of non-space characters, in order;
\* cur is the word being read
RECURSIVE SplitFrom(_, _, _)
SplitFrom(s, i, cur) ==
    IF i > Len(s) THEN (IF cur = <<>> THEN <<>> ELSE <<cur>>)
    ELSE IF s[i] = " "
         THEN (IF cur = <<>> THEN <<>> ELSE <<cur>>) \o SplitFrom(s, i + 1, <<>>)
         ELSE SplitFrom(s, i + 1, Append(cur, s[i]))

Split(s) == SplitFrom(s, 1, <<>>)

\* " ".join(words)
RECURSIVE JoinWords(_)
JoinWords(words) ==
    IF words = <<>> THEN <<>>
    ELSE IF Len(words) = 1 THEN words[1]
    ELSE words[1] \o <<" ">> \o JoinWords(Tail(words))

\* str.strip() of spaces
RECURSIVE Strip(_)
Strip(s) ==
    IF s = <<>> THEN s
    ELSE IF s[1] = " " THEN Strip(Tail(s))
    ELSE IF s[Len(s)] = " " THEN Strip(SubSeq(s, 1, Len(s) - 1))
    ELSE s

\* _norm (backend.py:123-127)
Norm(s) == IF s = <<>> THEN <<>> ELSE JoinWords(Split(Substituted(s)))

\* set(k.split())
WordSet(k) == {Split(k)[i] : i \in DOMAIN Split(k)}

\* A catalog item of the library service (getAllBooks).  BookLibrary and
\* AudioLibrary are "" (None) or a date; Status and AudioStatus are "" or
\* a status text; Author is the older name of the AuthorName field.
Item(name, author, lib, status, alib, astatus) ==
    [BookName |-> name, AuthorName |-> author, Author |-> <<>>,
     BookLibrary |-> lib,
     Status |-> status, AudioLibrary |-> alib, AudioStatus |-> astatus]

\* item.get("AuthorName") or item.get("Author") or "" (backend.py:689)
AuthorOf(item) ==
    IF item.AuthorName # <<>> THEN item.AuthorName ELSE item.Author

ItemTitles == {<<"a">>, <<"b", " ", "a">>, <<"A", " ", "c">>}
ItemAuthors == {<<>>, <<"C">>}

Items ==
    UNION {{Item(t, a, "2024", "Open", "", "Skipped"),
            Item(t, a, "", "Wanted", "", "Wanted"),
            Item(t, a, "", "", "2024", "Open")} :
           t \in ItemTitles, a \in ItemAuthors}

Catalogs == UNION {[1..n -> Items] : n \in 0..MaxCatalog}

\* A dict in insertion order: a sequence of [k, items] with distinct k.
HasKey(d, k) == \E i \in DOMAIN d : d[i].k = k
Lookup(d, k) == d[CHOOSE i \in DOMAIN d : d[i].k = k].items

\* a variant of the insertion that overwrites what the key held
SetDefaultReplace(d, k, item) ==
    IF HasKey(d, k)
    THEN [i \in DOMAIN d |->
            IF d[i].k = k THEN [d[i] EXCEPT !.items = <<item>>] ELSE d[i]]
    ELSE Append(d, [k |-> k, items |-> <<item>>])

\* d.setdefault(k, []).append(item)
SetDefaultAppend(d, k, item) ==
    IF HasKey(d, k)
    THEN [i \in DOMAIN d |->
            IF d[i].k = k THEN [d[i] EXCEPT !.items = Append(@, item)]
            ELSE d[i]]
    ELSE Append(d, [k |-> k, items |-> <<item>>])

\* the body of the loop of _build_ll_index for one item
\* (backend.py:688-693)
IndexItem(item, tm, tam) ==
    LET bname == Norm(item.BookName)
        aname == Norm(AuthorOf(item))
    IN [title_map |->
          IF bname # <<>> THEN SetDefaultAppend(tm, bname, item) ELSE tm,
        title_author_map |->
          IF bname # <<>> /\ aname # <<>>
          THEN SetDefaultAppend(tam, bname \o <<" ">> \o aname, item)
          ELSE tam]

\* _build_ll_index (backend.py:673-697): the loop over the catalog from
\* item i on
RECURSIVE BuildFrom(_, _, _, _)
BuildFrom(catalog, i, tm, tam) ==
    IF i > Len(catalog) THEN [title_map |-> tm, title_author_map |-> tam]
    ELSE LET ix == IndexItem(catalog[i], tm, tam)
         IN BuildFrom(catalog, i + 1, ix.title_map, ix.title_author_map)

BuildLlIndex(catalog) == BuildFrom(catalog, 1, <<>>, <<>>)

\* a variant of the fuzzy test that accepts the subset direction only
FuzzySubsetOnly(twords, kwords) == twords \subseteq kwords

\* the fuzzy test of match_books (backend.py:166)
FuzzyHit(twords, kwords) == twords \subseteq kwords \/ kwords \subseteq twords

\* the loop over title_map.items() from entry i on (backend.py:164-168)
RECURSIVE FuzzyFrom(_, _, _)
FuzzyFrom(tm, i, twords) ==
    IF i > Len(tm) THEN <<>>
    ELSE IF FuzzyHit(twords, WordSet(tm[i].k)) THEN tm[i].items
    ELSE FuzzyFrom(tm, i + 1, twords)

\* key = f"{ntitle} {nauthor}".strip() if nauthor else ntitle
\* (backend.py:155)
MatchKey(ntitle, nauthor) ==
    IF nauthor # <<>> THEN Strip(ntitle \o <<" ">> \o nauthor) ELSE ntitle

\* a variant of the tiers that tries the title before the title+author key
MatchedItemsTitleFirst(title, author, tm, tam) ==
    LET ntitle == Norm(title)
        nauthor == Norm(author)
        key == MatchKey(ntitle, nauthor)
    IN IF ntitle = <<>> THEN <<>>
       ELSE IF HasKey(tm, ntitle) THEN Lookup(tm, ntitle)
       ELSE IF key # <<>> /\ HasKey(tam, key) THEN Lookup(tam, key)
       ELSE IF WordSet(ntitle) # {} THEN FuzzyFrom(tm, 1, WordSet(ntitle))
       ELSE <<>>

\* the tiers of match_books (backend.py:150-168)
MatchedItems(title, author, tm, tam) ==
    LET ntitle == Norm(title)
        nauthor == Norm(author)
        key == MatchKey(ntitle, nauthor)
    IN IF ntitle = <<>> THEN <<>>
       ELSE IF key # <<>> /\ HasKey(tam, key) THEN Lookup(tam, key)
       ELSE IF HasKey(tm, ntitle) THEN Lookup(tm, ntitle)
       ELSE IF WordSet(ntitle) # {} THEN FuzzyFrom(tm, 1, WordSet(ntitle))
       ELSE <<>>


-----------------------------------------------------------------------------
(* The aggregator of match_books (backend.py:170-217).                     *)

\* status texts in the order Python compares strings (by code point)
StatusOrder == <<"In Library", "Missing", "Open", "Skipped", "Wanted">>
RankOf(x) == CHOOSE i \in DOMAIN StatusOrder : StatusOrder[i] = x

\* a variant of the join that keeps the order of first appearance
RECURSIVE InOrderOfAppearance(_)
InOrderOfAppearance(xs) ==
    IF xs = <<>> THEN <<>>
    ELSE LET rest == InOrderOfAppearance(SubSeq(xs, 1, Len(xs) - 1))
             x == xs[Len(xs)]
         IN IF \E i \in DOMAIN rest : rest[i] = x THEN rest
            ELSE Append(rest, x)

\* ", ".join(sorted(statuses)) for the statuses added in the order xs;
\* the joined text is kept as the sequence of its parts
RECURSIVE SortedJoin(_)
SortedJoin(xs) ==
    LET S == {xs[i] : i \in DOMAIN xs} IN
    IF S = {} THEN <<>>
    ELSE LET least == CHOOSE x \in S : \A y \in S : RankOf(x) <= RankOf(y)
         IN <<least>> \o SortedJoin(SelectSeq(xs, LAMBDA y : y # least))

\* the statuses added for type t by the items from item i on
\* (backend.py:176-189), in the order they are added
RECURSIVE StatusesFrom(_, _, _)
StatusesFrom(items, i, t) ==
    IF i > Len(items) THEN <<>>
    ELSE LET item == items[i]
             own ==
               CASE t = "eBook" ->
                      (IF item.BookLibrary # "" THEN <<"In Library">> ELSE <<>>)
                      \o (IF item.Status # "" THEN <<item.Status>> ELSE <<>>)
                 [] t = "AudioBook" ->
                      (IF item.AudioLibrary # "" THEN <<"In Library">> ELSE <<>>)
                      \o (IF item.AudioStatus # "" THEN <<item.AudioStatus>>
                          ELSE <<>>)
                 [] OTHER -> <<>>
         IN own \o StatusesFrom(items, i + 1, t)

\* available, for type t (backend.py:173-187)
Available(items, t) ==
    \E i \in DOMAIN items :
        \/ t = "eBook" /\ items[i].BookLibrary # ""
        \/ t = "AudioBook" /\ items[i].AudioLibrary # ""

\* match_entry["matches"][t] for a non-empty matched set
\* (backend.py:191-202)
Verdict(items, t) ==
    LET statuses == StatusesFrom(items, 1, t) IN
    [matched |-> Available(items, t),
     status |-> IF Available(items, t) THEN <<"In Library">>
                ELSE IF statuses # <<>> THEN SortedJoin(statuses)
                ELSE <<"Missing">>,
     raw |-> items]

\* match_entry["matches"][t] without a match (backend.py:210-214)
NoVerdict == [matched |-> FALSE, status |-> <<"Missing">>, raw |-> <<>>]

\* a variant that looks the unmatched title up at the library service
SearchesWhenUnmatchedAuto(title) == <<title>>

\* the searches (findBook/searchBook) match_books sends to the library
\* service for a record without a match: none (backend.py:207-215)
SearchesWhenUnmatched(title) == <<>>

TypesOf(types) == {types[i] : i \in DOMAIN types}

\* the body of the loop for one book b = (url, title, author)
\* (backend.py:131-217)
MatchEntry(b, types, tm, tam) ==
    LET items == MatchedItems(b[2], b[3], tm, tam) IN
    [title |-> b[2], author |-> b[3], storygraph_url |-> b[1],
     matches |-> [t \in TypesOf(types) |->
                    IF items # <<>> THEN Verdict(items, t) ELSE NoVerdict],
     library_matches |-> items,
     match_method |-> IF items # <<>> THEN "library" ELSE "none",
     search_possible |-> (items = <<>>)]

\* the scraped records to match, (url, title, author)
Book(title, author) == <<<<"h", "/", "x">>, title, author>>

Records ==
    { Book(<<"a">>, <<>>), Book(<<"A", "!">>, <<"c">>),
      Book(<<"a">>, <<"b">>), Book(<<"a", "b">>, <<>>),
      Book(<<"!">>, <<"c">>), Book(<<"b">>, <<"a", " ", "c">>),
      Book(<<"a", " ", "b">>, <<>>), Book(<<"c">>, <<"!">>) }

MatchInputs ==
    {<<r>> : r \in Records}
    \cup {<<Book(<<"a">>, <<"c">>), Book(<<"!">>, <<>>)>>}

TypeLists == {<<"eBook", "AudioBook">>, <<"AudioBook">>}

\* max_books of the request (backend.py:53)
MaxBooksDefault == 50

MtStart(catalog, books, types) ==
    LET ix == BuildLlIndex(catalog) IN
    [pc |-> "loop", catalog |-> catalog,
     title_map |-> ix.title_map, title_author_map |-> ix.title_author_map,
     books |-> books, types |-> types, i |-> 0,
     results |-> <<>>, searches |-> <<>>]

InitMatch ==
    /\ InitCache
    /\ cg = CgIdle
    /\ OthersIdle
    /\ \E catalog \in Catalogs, books \in MatchInputs, types \in TypeLists :
          mt = MtStart(catalog, books, types)

\* one iteration of `for i, b in enumerate(books[:max_books])`
MatchRecord ==
    /\ mt.pc = "loop"
    /\ mt.i < Len(mt.books) /\ mt.i < MaxBooksDefault
    /\ LET b == mt.books[mt.i + 1]
           entry == MatchEntry(b, mt.types, mt.title_map, mt.title_author_map)
       IN mt' = [mt EXCEPT !.i = mt.i + 1,
                    !.results = Append(mt.results, entry),
                    !.searches =
                       IF entry.library_matches = <<>>
                       THEN mt.searches \o SearchesWhenUnmatched(b[2])
                       ELSE mt.searches]
    /\ UNCHANGED <<now, fs, proc, cg, nm, ll, px>>

\* the loop is over: the response is built (backend.py:219-228)
MatchRespond ==
    /\ mt.pc = "loop"
    /\ ~(mt.i < Len(mt.books) /\ mt.i < MaxBooksDefault)
    /\ mt' = [mt EXCEPT !.pc = "done"]
    /\ UNCHANGED <<now, fs, proc, cg, nm, ll, px>>

NextMatch == MatchRecord \/ MatchRespond

SpecMatch == InitMatch /\ [][NextMatch]_vars


-----------------------------------------------------------------------------
(* Properties of the matcher and the aggregator (checked under SpecMatch). *)

Entries == DOMAIN mt.results
NTitle(k) == Norm(mt.books[k][2])
NAuthor(k) == Norm(mt.books[k][3])
Found(k) == mt.results[k].library_matches

\* C7: whenever by_title_author contains normalize(title) + " " +
\* normalize(author) of a record, the record's matched set is exactly the
\* items under that key, whatever by_title holds for the title.
C7_ExactKeyFirst ==
    \A k \in Entries :
        LET key == NTitle(k) \o <<" ">> \o NAuthor(k) IN
        HasKey(mt.title_author_map, key)
            => Found(k) = Lookup(mt.title_author_map, key)

\* a record resolved by its title+author key although by_title holds a
\* different, larger set for its title
C7_Witness ==
    \E k \in Entries :
        LET key == NTitle(k) \o <<" ">> \o NAuthor(k) IN
        /\ HasKey(mt.title_author_map, key)
        /\ HasKey(mt.title_map, NTitle(k))
        /\ Lookup(mt.title_map, NTitle(k)) # Lookup(mt.title_author_map, key)
        /\ Found(k) = Lookup(mt.title_author_map, key)

\* the two exact lookups as match_books performs them
ExactKeyHit(k) ==
    /\ MatchKey(NTitle(k), NAuthor(k)) # <<>>
    /\ HasKey(mt.title_author_map, MatchKey(NTitle(k), NAuthor(k)))
ExactTitleHit(k) == HasKey(mt.title_map, NTitle(k))

\* key i of by_title is in the subset or the superset relation with the
\* words of the record's title
Related(k, i) ==
    \/ WordSet(NTitle(k)) \subseteq WordSet(mt.title_map[i].k)
    \/ WordSet(mt.title_map[i].k) \subseteq WordSet(NTitle(k))

\* the items of the first related key in insertion order, or no match
IsFirstRelated(k, found) ==
    IF \E i \in DOMAIN mt.title_map : Related(k, i)
    THEN \E i \in DOMAIN mt.title_map :
            /\ Related(k, i)
            /\ \A j \in 1..(i - 1) : ~Related(k, j)
            /\ found = mt.title_map[i].items
    ELSE found = <<>>

\* the matched set comes from an exact tier
IsExact(k, found) ==
    \/ ExactKeyHit(k)
         /\ found = Lookup(mt.title_author_map, MatchKey(NTitle(k), NAuthor(k)))
    \/ ~ExactKeyHit(k) /\ ExactTitleHit(k)
         /\ found = Lookup(mt.title_map, NTitle(k))

\* C8 as stated: the fuzzy tier decides exactly when both exact lookups
\* miss, and then yields the items of the first related by_title key, or
\* no match when no key is related.
C8_FuzzyAsStated ==
    \A k \in Entries :
        IF ExactKeyHit(k) \/ ExactTitleHit(k)
        THEN IsExact(k, Found(k))
        ELSE IsFirstRelated(k, Found(k))

\* C8 amended: as C8 for a record whose normalized title is non-empty; a
\* record whose normalized title is empty is matched by no tier (its empty
\* word set is never compared with the keys).
C8_Fuzzy ==
    \A k \in Entries :
        IF NTitle(k) = <<>> THEN Found(k) = <<>>
        ELSE IF ExactKeyHit(k) \/ ExactTitleHit(k)
        THEN IsExact(k, Found(k))
        ELSE IsFirstRelated(k, Found(k))

\* a record resolved by the fuzzy tier with two related keys to choose
\* from, the second holding other items
C8_Witness ==
    \E k \in Entries :
        /\ NTitle(k) # <<>>
        /\ ~ExactKeyHit(k) /\ ~ExactTitleHit(k)
        /\ \E i, j \in DOMAIN mt.title_map :
              /\ i < j
              /\ Related(k, i) /\ Related(k, j)
              /\ mt.title_map[i].items # mt.title_map[j].items
              /\ Found(k) = mt.title_map[i].items

HasFile(item, t) ==
    \/ t = "eBook" /\ item.BookLibrary # ""
    \/ t = "AudioBook" /\ item.AudioLibrary # ""

StatusText(item, t) == IF t = "eBook" THEN item.Status ELSE item.AudioStatus

\* q lists the members of S once each, in increasing order
IsSortedListOf(q, S) ==
    /\ Len(q) = Cardinality(S)
    /\ {q[i] : i \in DOMAIN q} = S
    /\ \A i, j \in DOMAIN q : i < j => RankOf(q[i]) < RankOf(q[j])

\* C9: for a non-empty matched set and each requested type among eBook
\* and AudioBook, matched holds exactly when some matched item has the
\* file for that type; status is "In Library" when matched, otherwise the
\* sorted list of the items' non-empty status texts for that type,
\* otherwise "Missing".
C9_Verdict ==
    \A k \in Entries : Found(k) # <<>> =>
        \A t \in TypesOf(mt.types) \cap {"eBook", "AudioBook"} :
            LET items == Found(k)
                v == mt.results[k].matches[t]
                has == \E i \in DOMAIN items : HasFile(items[i], t)
                S == {StatusText(items[i], t) : i \in DOMAIN items} \ {""}
            IN /\ v.matched = has
               /\ has => v.status = <<"In Library">>
               /\ ~has /\ S # {} => IsSortedListOf(v.status, S)
               /\ ~has /\ S = {} => v.status = <<"Missing">>

\* two matched items without the audio file, "Wanted" before "Skipped":
\* the verdict is matched=false, status "Skipped, Wanted"
C9_Witness ==
    \E k \in Entries :
        /\ Len(Found(k)) = 2
        /\ "AudioBook" \in TypesOf(mt.types)
        /\ Found(k)[1].AudioStatus = "Wanted"
        /\ Found(k)[2].AudioStatus = "Skipped"
        /\ mt.results[k].matches["AudioBook"].matched = FALSE
        /\ mt.results[k].matches["AudioBook"].status = <<"Skipped", "Wanted">>

\* C10: for a record no tier matches, every requested type is reported
\* matched=false with status "Missing", the entry is flagged
\* search_possible, and no search request goes to the library service.
C10_Unmatched ==
    \A k \in Entries : Found(k) = <<>> =>
        /\ \A t \in TypesOf(mt.types) :
              /\ mt.results[k].matches[t].matched = FALSE
              /\ mt.results[k].matches[t].status = <<"Missing">>
        /\ mt.results[k].search_possible
        /\ mt.searches = <<>>

\* a request answered with an unmatched record although the catalog holds
\* items
C10_Witness ==
    /\ mt.pc = "done"
    /\ mt.catalog # <<>>
    /\ \E k \in Entries :
          /\ Found(k) = <<>>
          /\ NTitle(k) # <<>>
          /\ mt.results[k].search_possible


-----------------------------------------------------------------------------
(* The normalizer on its own (backend.py:123-127, 530-534, 678-682): the   *)
(* three copies of _norm have the same text.                               *)

\* inputs of the normalizer are at most MaxNormLen characters long
MaxNormLen == 3

\* an upper-case letter, its lower-case form, a punctuation mark, the
\* space and a digit
NormAlphabet == {"A", "a", "!", " ", "1"}

NormStrings == UNION {[1..n -> NormAlphabet] : n \in 0..MaxNormLen}

\* an argument of _norm: None, or a str
NoneArg == [none |-> TRUE, s |-> <<>>]
StrArg(s) == [none |-> FALSE, s |-> s]
NormArgs == {NoneArg} \cup {StrArg(s) : s \in NormStrings}

\* _norm called with None or a str: `if not s: return ""` answers for None
\* (and for ""), the rest of the body for every other str
NormOf(arg) == IF arg.none THEN <<>> ELSE Norm(arg.s)

NmStart(x) ==
    [pc |-> "input", x |-> x, y |-> x, nx |-> <<>>, ny |-> <<>>, nnx |-> <<>>]

InitNorm ==
    /\ InitCache
    /\ cg = CgIdle
    /\ mt = MtIdle
    /\ ll = LlIdle
    /\ px = PxIdle
    /\ \E x \in NormArgs : nm = NmStart(x)

\* the caller holds a second spelling y of the title x: one letter in the
\* other case
NormRecase(i) ==
    /\ nm.pc = "input"
    /\ ~nm.y.none
    /\ i \in DOMAIN nm.y.s
    /\ nm.y.s[i] \in {"A", "a"}
    /\ nm' = [nm EXCEPT !.y.s[i] = IF nm.y.s[i] = "A" THEN "a" ELSE "A"]
    /\ UNCHANGED <<now, fs, proc, cg, mt, ll, px>>

\* ... one punctuation mark replaced by a space
NormBlank(i) ==
    /\ nm.pc = "input"
    /\ ~nm.y.none
    /\ i \in DOMAIN nm.y.s
    /\ nm.y.s[i] = "!"
    /\ nm' = [nm EXCEPT !.y.s[i] = " "]
    /\ UNCHANGED <<now, fs, proc, cg, mt, ll, px>>

\* ... a punctuation mark at the end left out ('The Waif!' / 'the waif')
NormDropLast ==
    /\ nm.pc = "input"
    /\ ~nm.y.none
    /\ nm.y.s # <<>>
    /\ nm.y.s[Len(nm.y.s)] = "!"
    /\ nm' = [nm EXCEPT !.y.s = SubSeq(nm.y.s, 1, Len(nm.y.s) - 1)]
    /\ UNCHANGED <<now, fs, proc, cg, mt, ll, px>>

\* ntitle = _norm(title) on both spellings
NormApply ==
    /\ nm.pc = "input"
    /\ nm' = [nm EXCEPT !.pc = "normed", !.nx = NormOf(nm.x),
                        !.ny = NormOf(nm.y)]
    /\ UNCHANGED <<now, fs, proc, cg, mt, ll, px>>

\* _norm applied to a key that is already normalized
NormAgain ==
    /\ nm.pc = "normed"
    /\ nm' = [nm EXCEPT !.pc = "done", !.nnx = NormOf(StrArg(nm.nx))]
    /\ UNCHANGED <<now, fs, proc, cg, mt, ll, px>>

NextNorm ==
    \/ \E i \in 1..MaxNormLen : NormRecase(i)
    \/ \E i \in 1..MaxNormLen : NormBlank(i)
    \/ NormDropLast
    \/ NormApply
    \/ NormAgain

SpecNorm == InitNorm /\ [][NextNorm]_vars


-----------------------------------------------------------------------------
(* Properties of the normalizer (checked under SpecNorm).                  *)

NormalChars == {"a", "b", "c", "d", "e", "f", "g", "h", "i", "j", "k", "l", "m", "n", "o", "p", "q", "r", "s", "t", "u", "v", "w", "x", "y", "z", "0", "1", "2", "3", "4", "5", "6", "7", "8", "9", " "}

\* only [a-z0-9 ], no space at either end, no two spaces in a row
IsNormalForm(t) ==
    /\ \A i \in DOMAIN t : t[i] \in NormalChars
    /\ t # <<>> => t[1] # " " /\ t[Len(t)] # " "
    /\ \A i \in 1..(Len(t) - 1) : ~(t[i] = " " /\ t[i + 1] = " ")

LetterCases == {<<"A", "a">>, <<"a", "A">>}
Punctuation == {"!"}

\* two characters that are the same up to letter case, or a punctuation
\* mark and the space that replaces it
SameUpToCase(c, d) ==
    \/ c = d
    \/ <<c, d>> \in LetterCases
    \/ c \in Punctuation /\ d = " "

\* y is x with letters in the other case, punctuation marks replaced by
\* spaces, and such replaced marks at the end left out
DiffersInCaseOrPunctuation(x, y) ==
    /\ Len(y) <= Len(x)
    /\ \A i \in DOMAIN x :
          IF i <= Len(y) THEN SameUpToCase(x[i], y[i])
          ELSE x[i] \in Punctuation \cup {" "}

\* C11: the normalizer is idempotent; its result is made of [a-z0-9 ] with
\* no leading, trailing or doubled space; empty and null inputs give the
\* empty string; two inputs that differ only in letter case or in
\* punctuation replaced by spaces have the same normal form.
C11_Normalizer ==
    /\ nm.pc \in {"normed", "done"} =>
          /\ IsNormalForm(nm.nx)
          /\ IsNormalForm(nm.ny)
          /\ (nm.x.none \/ nm.x.s = <<>>) => nm.nx = <<>>
          /\ (~nm.x.none /\ DiffersInCaseOrPunctuation(nm.x.s, nm.y.s))
                => nm.nx = nm.ny
    /\ nm.pc = "done" => nm.nnx = nm.nx

\* an input with an upper-case letter and a punctuation mark, normalized
\* twice, next to a spelling of it that differs in both
C11_Witness ==
    /\ nm.pc = "done"
    /\ ~nm.x.none
    /\ \E i, j \in DOMAIN nm.x.s : nm.x.s[i] = "A" /\ nm.x.s[j] = "!"
    /\ nm.y.s # nm.x.s
    /\ Len(nm.y.s) < Len(nm.x.s)
    /\ \E i \in DOMAIN nm.y.s : nm.y.s[i] = "a" /\ nm.x.s[i] = "A"
    /\ DiffersInCaseOrPunctuation(nm.x.s, nm.y.s)
    /\ nm.nx # <<>>
    /\ nm.nx # nm.x.s


-----------------------------------------------------------------------------
(* Sessions of the rendering proxy, as the two collector classes use them: *)
(* StoryGrabber (storygrab/modules/storygraph.py:9-53) and Storygraph      *)
(* (storygrabber/modules/storygraph.py:23-63, 115-155).                    *)

\* a collector instance serves at most MaxCalls calls
MaxCalls == 3

\* session ids: None, the id the caller passes in, the id the proxy hands
\* out on sessions.create
NoSession == 0
CallerSession == 1
ProxySession == 2

Impls == {"StoryGrabber", "Storygraph"}

\* how sessions.create ends: 200 with an id, an error body without an id,
\* or an exception (transport error, or a body that is no JSON)
CreateOutcomes == {"ok", "error", "raises"}

\* what the first page of Storygraph.get_books holds, and how the call goes:
\*   "first_fails"  the first request is answered with an error status
\*   "no_count"     no parseable count (or the count 0)
\*   "small_count"  a count of 1..10
\*   "large_count"  a count above 10, every page answered
\*   "page_fails"   a count above 10, a page answered with an error status
GetBooksKinds ==
    {"first_fails", "no_count", "small_count", "large_count", "page_fails"}

\* a command sent to the proxy
Sent(cmd, id) == [cmd |-> cmd, session |-> id]

PxStart == [pc |-> "new", impl |-> "none", passed |-> NoSession,
            session_id |-> NoSession, session_created |-> FALSE,
            sent |-> <<>>, calls |-> 0, last |-> "none"]

InitSessions ==
    /\ InitCache
    /\ cg = CgIdle
    /\ mt = MtIdle
    /\ nm = NmIdle
    /\ ll = LlIdle
    /\ px = PxStart

\* StoryGrabber.__init__(sg_user, session_id), storygraph.py:9-40
StoryGrabberInit(passed, outcome) ==
    /\ px.pc = "new"
    /\ px' =
         IF passed # NoSession
         THEN [px EXCEPT !.pc = "ready", !.impl = "StoryGrabber",
                         !.passed = passed, !.session_id = passed]
         ELSE LET q == [px EXCEPT !.impl = "StoryGrabber",
                           !.sent = Append(px.sent,
                                       Sent("sessions.create", NoSession))]
              IN CASE outcome = "ok" ->
                        [q EXCEPT !.pc = "ready", !.session_id = ProxySession,
                                  !.session_created = TRUE]
                   [] outcome = "error" ->
                        [q EXCEPT !.pc = "ready", !.session_id = NoSession,
                                  !.session_created = TRUE]
                   [] OTHER -> [q EXCEPT !.pc = "failed"]
    /\ UNCHANGED <<now, fs, proc, cg, mt, nm, ll>>

\* Storygraph.__init__(fs_session) and _create_fs_session,
\* storygrabber/modules/storygraph.py:23-50
StorygraphInit(passed, outcome) ==
    /\ px.pc = "new"
    /\ px' =
         IF passed # NoSession
         THEN [px EXCEPT !.pc = "ready", !.impl = "Storygraph",
                         !.passed = passed, !.session_id = passed]
         ELSE LET q == [px EXCEPT !.impl = "Storygraph",
                           !.sent = Append(px.sent,
                                       Sent("sessions.create", NoSession))]
              IN IF outcome = "ok"
                 THEN [q EXCEPT !.pc = "ready", !.session_id = ProxySession,
                                !.session_created = TRUE]
                 ELSE [q EXCEPT !.pc = "failed"]
    /\ UNCHANGED <<now, fs, proc, cg, mt, nm, ll>>

\* `if self.session_created and self.session_id` (storygraph.py:44)
StoryGrabberDestroys(created, id) == created /\ id # NoSession

\* `if self.session_id is not None or self.session_created is True`
\* (storygrabber/modules/storygraph.py:54)
StorygraphDestroys(created, id) == id # NoSession \/ created

\* StoryGrabber.destroy_session, storygraph.py:42-53
StoryGrabberDestroySession ==
    /\ px.pc = "ready"
    /\ px.impl = "StoryGrabber"
    /\ px.calls < MaxCalls
    /\ px' = [px EXCEPT
                !.calls = px.calls + 1,
                !.last = "destroy_session",
                !.sent = IF StoryGrabberDestroys(px.session_created,
                                                 px.session_id)
                         THEN Append(px.sent,
                                Sent("sessions.destroy", px.session_id))
                         ELSE px.sent]
    /\ UNCHANGED <<now, fs, proc, cg, mt, nm, ll>>

\* StoryGrabber.get_books, storygraph.py:55-213: it sends request.get
\* commands and leaves the session alone
StoryGrabberGetBooks ==
    /\ px.pc = "ready"
    /\ px.impl = "StoryGrabber"
    /\ px.calls < MaxCalls
    /\ px' = [px EXCEPT
                !.calls = px.calls + 1,
                !.last = "get_books",
                !.sent = Append(px.sent, Sent("request.get", px.session_id))]
    /\ UNCHANGED <<now, fs, proc, cg, mt, nm, ll>>

\* Storygraph._destroy_fs_session, storygrabber/modules/storygraph.py:
\* 52-63, on the instance q; ok says whether the proxy answers the destroy
\* command with success
DestroyFsSession(q, ok) ==
    IF StorygraphDestroys(q.session_created, q.session_id)
    THEN LET r == [q EXCEPT !.sent = Append(q.sent,
                                Sent("sessions.destroy", q.session_id))]
         IN IF ok
            THEN [r EXCEPT !.session_created = FALSE,
                           !.session_id = NoSession]
            ELSE [r EXCEPT !.last = "raised"]
    ELSE [q EXCEPT !.last = "raised"]

\* Storygraph.get_books, storygrabber/modules/storygraph.py:115-155
StorygraphGetBooks(kind, ok) ==
    /\ px.pc = "ready"
    /\ px.impl = "Storygraph"
    /\ px.calls < MaxCalls
    /\ px' =
         LET q == [px EXCEPT
                     !.calls = px.calls + 1,
                     !.last = "get_books",
                     !.sent = Append(px.sent,
                                 Sent("request.get", px.session_id))]
         IN CASE kind \in {"first_fails", "small_count", "page_fails"} ->
                   [q EXCEPT !.last = "raised"]
              [] kind = "no_count" ->
                   [DestroyFsSession(q, ok) EXCEPT !.last = "raised"]
              [] OTHER -> DestroyFsSession(q, ok)
    /\ UNCHANGED <<now, fs, proc, cg, mt, nm, ll>>

NextSessions ==
    \/ \E passed \in {NoSession, CallerSession}, o \in CreateOutcomes :
          StoryGrabberInit(passed, o)
    \/ \E passed \in {NoSession, CallerSession}, o \in CreateOutcomes :
          StorygraphInit(passed, o)
    \/ StoryGrabberDestroySession
    \/ StoryGrabberGetBooks
    \/ \E kind \in GetBooksKinds, ok \in BOOLEAN : StorygraphGetBooks(kind, ok)

SpecSessions == InitSessions /\ [][NextSessions]_vars


-----------------------------------------------------------------------------
(* Properties of the sessions (checked under SpecSessions).                *)

\* C12: in every collector implementation a sessions.destroy command is
\* sent only for a session this instance created itself; a session id
\* passed in by the caller is never destroyed, after any sequence of
\* get_books and close calls.
C12_SessionOwnership ==
    px.pc # "idle" =>
       \A i \in DOMAIN px.sent :
          px.sent[i].cmd = "sessions.destroy" =>
             /\ px.sent[i].session = ProxySession
             /\ px.passed = NoSession
             /\ \E j \in 1..(i - 1) : px.sent[j].cmd = "sessions.create"


-----------------------------------------------------------------------------
(* Properties of the collector's pagination and failure handling (checked  *)
(* under SpecCollector).                                                   *)

\* the first request of the call has been answered
FirstAnswered == Len(cg.stats) >= 1

\* C13: when the first-page request is answered with any status other than
\* 200, the call ends with an error and returns no book list.
C13_FirstPageFatal ==
    (FirstAnswered /\ cg.stats[1] # 200) => cg.pc = "raised"

\* <<0, 1, ..., n>>: the first request, then ?page=1 .. ?page=n
UpTo(n) == [k \in 1..(n + 1) |-> k - 1]

RECURSIVE ConcatAll(_)
ConcatAll(ss) == IF ss = <<>> THEN <<>> ELSE Head(ss) \o ConcatAll(Tail(ss))

\* request k of the call is a page that stops the exploration: it is not
\* answered with 200, or it adds no record
IsStoppingPage(k) == cg.stats[k] # 200 \/ cg.news[k] = <<>>

\* C18: in exploratory mode the pages 1, 2, 3, ... are fetched strictly in
\* order; the first page that is not answered with 200 or yields no new
\* record is the last one fetched; every record collected from the pages
\* before it is returned.
C18_ExploreStop ==
    cg.mode = "explore" =>
       /\ cg.reqs = UpTo(Len(cg.reqs) - 1)
       /\ \A k \in 2..(Len(cg.reqs) - 1) : ~IsStoppingPage(k)
       /\ (Len(cg.reqs) >= 2 /\ IsStoppingPage(Len(cg.reqs)))
             => cg.pc \in {"explored", "returned"}
       /\ cg.books = ConcatAll(cg.news)
       /\ cg.pc = "returned" => cg.result = ConcatAll(cg.news)

\* an exploration that returned records after stopping at a page answered
\* with 200 whose records were all seen before
C18_Witness ==
    /\ cg.mode = "explore"
    /\ cg.pc = "returned"
    /\ Len(cg.reqs) >= 3
    /\ cg.stats[Len(cg.reqs)] = 200
    /\ RecordsOf(SitePage(cg, cg.reqs[Len(cg.reqs)])) # <<>>
    /\ cg.news[Len(cg.reqs)] = <<>>
    /\ cg.result # <<>>

\* the least number of pages of PageSize records that hold n records
CeilDiv(n) == CHOOSE q \in 0..n : q * PageSize >= n /\ (q = 0 \/ (q - 1) * PageSize < n)

\* C19: with a parseable count N the call computes pages = ceil(N / 10)
\* once and requests ?page=1 .. ?page=pages, each once, in increasing
\* order, and no page beyond; for N = 0 it requests none and returns [].
C19_CountDriven ==
    cg.mode = "count" =>
       /\ cg.iterations = CeilDiv(cg.count)
       /\ Len(cg.reqs) <= cg.iterations + 1
       /\ cg.reqs = UpTo(Len(cg.reqs) - 1)
       /\ cg.pc = "returned" => cg.reqs = UpTo(CeilDiv(cg.count))
       /\ (cg.pc = "returned" /\ cg.count = 0)
             => cg.reqs = <<0>> /\ cg.result = <<>>

\* a count of 21 was served with three page requests
C19_Witness ==
    /\ cg.mode = "count"
    /\ cg.pc = "returned"
    /\ cg.count = 21
    /\ cg.reqs = <<0, 1, 2, 3>>

\* the blocks of the pages k..n that were answered with 200
RECURSIVE SucceededBlocks(_, _)
SucceededBlocks(k, n) ==
    IF k > n THEN <<>>
    ELSE (IF cg.stats[k + 1] = 200 THEN SitePage(cg, k) ELSE <<>>)
         \o SucceededBlocks(k + 1, n)

\* C20: in count-driven mode a page that is not answered with 200 is
\* skipped: the remaining pages up to the computed number are still
\* requested and the call returns the records of all pages that succeeded.
C20_PartialFailure ==
    cg.mode = "count" =>
       /\ cg.pc # "raised"
       /\ cg.pc = "returned" =>
             /\ cg.reqs = UpTo(cg.iterations)
             /\ cg.result = FirstOccurrencesFrom(
                               RecordsOf(SucceededBlocks(1, cg.iterations)), 1)

\* a call whose page 1 failed returned the records of page 2
C20_Witness ==
    /\ cg.mode = "count"
    /\ cg.pc = "returned"
    /\ cg.iterations >= 2
    /\ cg.stats[2] # 200
    /\ cg.stats[3] = 200
    /\ RecordsOf(SitePage(cg, 1)) # <<>>
    /\ cg.result # <<>>
    /\ cg.result = FirstOccurrencesFrom(RecordsOf(SitePage(cg, 2)), 1)


-----------------------------------------------------------------------------
(* The in-memory catalog slot: _ll_cache and _get_ll_library               *)
(* (backend.py:642-669) over LazyLibrarianClient.get_all_books             *)
(* (modules/lazylibrarian.py:47-106, 603-615).                             *)

\* values of LL_CACHE_TTL (an environment variable, 60 when unset), in
\* ticks of the clock
LlCacheTtls == {0, 1, 2}

\* a value that is None or a list of catalog items
NoSnapshot == [none |-> TRUE, items |-> <<>>]
Snapshot(items) == [none |-> FALSE, items |-> items]

\* truth value of `_ll_cache["data"]`: None and [] are false
Truthy(v) == ~v.none /\ v.items # <<>>

\* _ll_cache["fetched_at"] = None
NoTime == -1

\* catalogs the library service may answer with
SlotItemA == Item(<<"a">>, <<"c">>, "2024", "Open", "", "Skipped")
SlotItemB == Item(<<"b">>, <<>>, "", "Wanted", "", "Wanted")
SlotCatalogs == {<<>>, <<SlotItemA>>, <<SlotItemA, SlotItemB>>}

\* What get_all_books returns (lazylibrarian.py:603-615):
\*   "list"    the service answers with a JSON array: _normalize_response
\*             wraps it as {"success": True, "data": [...]}
\*   "error"   a transport error or an error status: _make_request catches
\*             it and returns {"success": False, "error": ...} (lines 72-77)
\*   "raises"  get_all_books itself raises (a client that does not catch,
\*             as the doubles of the tests may)
AllBooksOutcomes == {"list", "error", "raises"}

\* ll_library as computed at backend.py:656-662 from the dict that
\* get_all_books returned: its "data" when present, else None
LlLibraryOf(outcome, catalog) ==
    IF outcome = "list" THEN Snapshot(catalog) ELSE NoSnapshot

\* the try block of _get_ll_library (backend.py:654-669): the new slot and
\* the value returned
SlotAfterFetch(data, fetched_at, t, outcome, catalog) ==
    IF outcome = "raises"
    THEN [data |-> data, fetched_at |-> fetched_at, ret |-> data]
    ELSE [data |-> LlLibraryOf(outcome, catalog), fetched_at |-> t,
          ret |-> LlLibraryOf(outcome, catalog)]

\* the slot may answer without a fetch (backend.py:650-652)
SlotFresh(force, data, fetched_at, t, ttl) ==
    /\ ~force
    /\ Truthy(data)
    /\ fetched_at # NoTime
    /\ t - fetched_at <= ttl

\* good and last record history for the properties: the last snapshot a
\* fetch obtained from the service, and how the last call went
LlStart(ttl) ==
    [pc |-> "slot", ttl |-> ttl, data |-> NoSnapshot, fetched_at |-> NoTime,
     ret |-> NoSnapshot, last |-> "none", force |-> FALSE,
     good |-> NoSnapshot, hadGood |-> FALSE]

InitSlot ==
    /\ InitCache
    /\ cg = CgIdle
    /\ mt = MtIdle
    /\ nm = NmIdle
    /\ px = PxIdle
    /\ \E ttl \in LlCacheTtls : ll = LlStart(ttl)

\* _get_ll_library(ll_client, force) answered from the slot
GetLlLibraryCached(force) ==
    /\ ll.pc = "slot"
    /\ SlotFresh(force, ll.data, ll.fetched_at, now, ll.ttl)
    /\ ll' = [ll EXCEPT !.ret = ll.data, !.last = "cached", !.force = force]
    /\ UNCHANGED <<now, fs, proc, cg, mt, nm, px>>

\* _get_ll_library(ll_client, force) with a call of the library service
GetLlLibraryFetch(force, outcome, catalog) ==
    /\ ll.pc = "slot"
    /\ ~SlotFresh(force, ll.data, ll.fetched_at, now, ll.ttl)
    /\ LET a == SlotAfterFetch(ll.data, ll.fetched_at, now, outcome, catalog)
       IN ll' = [ll EXCEPT
                   !.data = a.data, !.fetched_at = a.fetched_at,
                   !.ret = a.ret, !.force = force,
                   !.last = IF outcome = "list" THEN "fetched" ELSE "failed",
                   !.good = IF outcome = "list" THEN Snapshot(catalog)
                            ELSE ll.good,
                   !.hadGood = ll.hadGood \/ outcome = "list"]
    /\ UNCHANGED <<now, fs, proc, cg, mt, nm, px>>

NextSlot ==
    \/ Tick
    \/ \E force \in BOOLEAN : GetLlLibraryCached(force)
    \/ \E force \in BOOLEAN, outcome \in AllBooksOutcomes,
          catalog \in SlotCatalogs :
          GetLlLibraryFetch(force, outcome, catalog)

SpecSlot == InitSlot /\ [][NextSlot]_vars


-----------------------------------------------------------------------------
(* Properties of the catalog slot (checked under SpecSlot).                *)

\* C14: when a forced or expired read of the slot fails to obtain the
\* catalog from the library service, it returns the last successfully
\* fetched snapshot, even if stale, and the slot still holds that snapshot
\* (stated for a snapshot that holds items).
C14_SlotDegrades ==
    (ll.pc = "slot" /\ ll.last = "failed" /\ ll.hadGood /\ Truthy(ll.good)) =>
       /\ ll.ret = ll.good
       /\ ll.data = ll.good


-----------------------------------------------------------------------------
(* _build_ll_index, item by item (backend.py:673-697).                     *)

\* a catalog item as far as the index reads it
IndexedItem(name, authorName, author) ==
    [Item(name, authorName, "", "", "", "") EXCEPT !.Author = author]

IndexTitles == {<<>>, <<"!">>, <<"a">>, <<"A", "!">>, <<"a", " ", "b">>}
IndexAuthors == {<<>>, <<"b">>}

IndexedItems ==
    {IndexedItem(t, a, b) : t \in IndexTitles, a \in IndexAuthors,
                            b \in {<<>>, <<"C">>}}

IndexCatalogs == UNION {[1..n -> IndexedItems] : n \in 0..MaxCatalog}

IxStart(catalog) ==
    [pc |-> "index", catalog |-> catalog, i |-> 0,
     title_map |-> <<>>, title_author_map |-> <<>>]

InitIndex ==
    /\ InitCache
    /\ cg = CgIdle
    /\ mt = MtIdle
    /\ nm = NmIdle
    /\ px = PxIdle
    /\ \E catalog \in IndexCatalogs : ll = IxStart(catalog)

\* one iteration of `for item in ll_library` (backend.py:687-693)
IndexNext ==
    /\ ll.pc = "index"
    /\ ll.i < Len(ll.catalog)
    /\ LET ix == IndexItem(ll.catalog[ll.i + 1], ll.title_map,
                           ll.title_author_map)
       IN ll' = [ll EXCEPT !.i = ll.i + 1, !.title_map = ix.title_map,
                           !.title_author_map = ix.title_author_map]
    /\ UNCHANGED <<now, fs, proc, cg, mt, nm, px>>

\* return title_map, title_author_map (backend.py:697)
IndexReturn ==
    /\ ll.pc = "index"
    /\ ll.i = Len(ll.catalog)
    /\ ll' = [ll EXCEPT !.pc = "indexed"]
    /\ UNCHANGED <<now, fs, proc, cg, mt, nm, px>>

NextIndex == IndexNext \/ IndexReturn

SpecIndex == InitIndex /\ [][NextIndex]_vars


-----------------------------------------------------------------------------
(* Properties of the catalog index (checked under SpecIndex).              *)

\* the items of the catalog read so far
IndexedSoFar == SubSeq(ll.catalog, 1, ll.i)

TitleOf(item) == Norm(item.BookName)
AuthorNameOf(item) ==
    Norm(IF item.AuthorName # <<>> THEN item.AuthorName ELSE item.Author)
TitleAuthorOf(item) == TitleOf(item) \o <<" ">> \o AuthorNameOf(item)

InByTitle(item) == TitleOf(item) # <<>>
InByTitleAuthor(item) == TitleOf(item) # <<>> /\ AuthorNameOf(item) # <<>>

\* d maps every key to the items that belong under it, in catalog order,
\* has a key for every item that belongs into it, and nothing else
IsIndexOf(d, items, Belongs(_), KeyOf(_)) ==
    /\ \A i, j \in DOMAIN d : i # j => d[i].k # d[j].k
    /\ \A i \in DOMAIN d :
          /\ d[i].items # <<>>
          /\ d[i].items =
               SelectSeq(items, LAMBDA it : Belongs(it) /\ KeyOf(it) = d[i].k)
    /\ \A n \in DOMAIN items :
          Belongs(items[n]) => \E i \in DOMAIN d : d[i].k = KeyOf(items[n])

-----------------------------------------------------------------------------
(* POST /api/find_books_ll (backend.py:503-580).                           *)

\* catalogs of the search hold MaxNumbered titles "w <letter>" and up to
\* MaxFindExtra other titles
MaxNumbered == 11
MaxFindExtra == 2

\* len(candidates[:10]) and len(scored[:10]) (backend.py:564, 569)
ResultLimit == 10

FindLetters == <<"d", "e", "f", "g", "h", "i", "j", "k", "l", "m", "n", "o", "p", "q">>

Titled(title, author) == Item(title, author, "", "Wanted", "", "Wanted")

\* the titles "w d", "w e", ... : k of them
NumberedItems(k) ==
    [n \in 1..k |-> Titled(<<"w", " ", FindLetters[n]>>, <<>>)]

ExtraItems ==
    { Titled(<<"x", " ", "w">>, <<>>),
      Titled(<<"w", " ", "x", " ", "y">>, <<>>),
      Titled(<<"w">>, <<>>),
      Titled(<<"x", " ", "y", " ", "z">>, <<>>),
      Titled(<<"w", " ", "x">>, <<"a">>) }

ExtraLists == UNION {[1..n -> ExtraItems] : n \in 0..MaxFindExtra}

FindCatalogs ==
    UNION {{NumberedItems(k) \o e, e \o NumberedItems(k)} :
             k \in {0, MaxNumbered}, e \in ExtraLists}

FindTitles == {<<>>, <<"!">>, <<"w", " ", "x">>, <<"W">>}
FindAuthors == {<<>>, <<"a">>}

\* what ll_client.find_book(title) answers with
RemoteResults == <<Titled(<<"r">>, <<>>)>>

\* the first n elements of xs: xs[:n]
Prefix(xs, n) == SubSeq(xs, 1, IF Len(xs) < n THEN Len(xs) ELSE n)

\* a variant of the threshold that wants more than half
ScoreAboveHalf(inter, longer) == 2 * inter > longer

\* inter / max(len(twords), len(kwords)) >= 0.5 (backend.py:560-561)
ScoreAtLeastHalf(inter, longer) == 2 * inter >= longer

Larger(a, b) == IF a >= b THEN a ELSE b

\* the score of key k for the query words, as the fraction inter / longer
ScoreOf(twords, kwords) ==
    [inter |-> Cardinality(twords \cap kwords),
     longer |-> Larger(Cardinality(twords), Cardinality(kwords))]

\* score a > score b, as Python compares the two quotients
ScoreGreater(a, b) == a.inter * b.longer > b.inter * a.longer

\* the loop over title_map.items() from entry i on (backend.py:555-562):
\* the list scored, as [score, items]
RECURSIVE ScoredFrom(_, _, _)
ScoredFrom(tm, i, twords) ==
    IF i > Len(tm) THEN <<>>
    ELSE LET sc == ScoreOf(twords, WordSet(tm[i].k)) IN
         (IF sc.inter # 0 /\ ScoreAtLeastHalf(sc.inter, sc.longer)
          THEN <<[score |-> sc, k |-> tm[i].k, items |-> tm[i].items]>>
          ELSE <<>>)
         \o ScoredFrom(tm, i + 1, twords)

\* scored.sort(key=score, reverse=True): stable, greatest score first
RECURSIVE SortByScore(_)
SortByScore(scored) ==
    IF scored = <<>> THEN <<>>
    ELSE LET best == CHOOSE i \in DOMAIN scored :
                        /\ \A j \in DOMAIN scored :
                              ~ScoreGreater(scored[j].score, scored[i].score)
                        /\ \A j \in 1..(i - 1) :
                              ScoreGreater(scored[i].score, scored[j].score)
             rest == [j \in 1..(Len(scored) - 1) |->
                        IF j < best THEN scored[j] ELSE scored[j + 1]]
         IN <<scored[best]>> \o SortByScore(rest)

\* candidates.extend(items) for the entries of scored from entry i on
RECURSIVE ExtendFrom(_, _)
ExtendFrom(scored, i) ==
    IF i > Len(scored) THEN <<>>
    ELSE scored[i].items \o ExtendFrom(scored, i + 1)

\* the candidates of find_books_ll and the tier they come from
\* (backend.py:536-565)
FindCandidates(title, author, tm, tam) ==
    LET ntitle == Norm(title)
        nauthor == Norm(author)
        key == Strip(ntitle \o <<" ">> \o nauthor)
        scored == SortByScore(ScoredFrom(tm, 1, WordSet(ntitle)))
    IN IF key # <<>> /\ HasKey(tam, key)
       THEN [tier |-> "exact_key", scored |-> <<>>, items |-> Lookup(tam, key)]
       ELSE IF HasKey(tm, ntitle)
       THEN [tier |-> "exact_title", scored |-> <<>>,
             items |-> Lookup(tm, ntitle)]
       ELSE IF ntitle # <<>> /\ WordSet(ntitle) # {}
       THEN [tier |-> "fuzzy", scored |-> scored,
             items |-> ExtendFrom(Prefix(scored, ResultLimit), 1)]
       ELSE [tier |-> "none", scored |-> <<>>, items |-> <<>>]

FindResponse(status, source, results) ==
    [status |-> status, source |-> source, results |-> results]

FindStart(catalog) ==
    LET ix == BuildLlIndex(catalog) IN
    [pc |-> "find", catalog |-> catalog,
     title_map |-> ix.title_map, title_author_map |-> ix.title_author_map,
     title |-> <<>>, author |-> <<>>, remote |-> FALSE,
     tier |-> "none", scored |-> <<>>,
     resp |-> FindResponse(0, "none", <<>>)]

\* tier and scored record history for the properties: where the
\* candidates came from and the sorted list scored

InitFind ==
    /\ InitCache
    /\ cg = CgIdle
    /\ mt = MtIdle
    /\ nm = NmIdle
    /\ px = PxIdle
    /\ \E catalog \in FindCatalogs : ll = FindStart(catalog)

\* find_books_ll answers 400: no title, or no LL_API_KEY
\* (backend.py:510-521)
FindRejected(title, author, remote, key) ==
    /\ ll.pc = "find"
    /\ title = <<>> \/ ~key
    /\ ll' = [ll EXCEPT !.pc = "found", !.title = title, !.author = author,
                !.remote = remote,
                !.resp = FindResponse(400, "none", <<>>)]
    /\ UNCHANGED <<now, fs, proc, cg, mt, nm, px>>

\* find_books_ll with a title and a key (backend.py:523-580); remoteOk
\* says whether ll_client.find_book returns
FindBooksLl(title, author, remote, remoteOk) ==
    /\ ll.pc = "find"
    /\ title # <<>>
    /\ LET c == FindCandidates(title, author, ll.title_map,
                               ll.title_author_map)
       IN ll' = [ll EXCEPT
                   !.pc = "found", !.title = title, !.author = author,
                   !.remote = remote, !.tier = c.tier, !.scored = c.scored,
                   !.resp =
                      IF c.items # <<>>
                      THEN FindResponse(200, "local",
                                        Prefix(c.items, ResultLimit))
                      ELSE IF remote
                      THEN (IF remoteOk
                            THEN FindResponse(200, "remote", RemoteResults)
                            ELSE FindResponse(500, "none", <<>>))
                      ELSE FindResponse(200, "local", <<>>)]
    /\ UNCHANGED <<now, fs, proc, cg, mt, nm, px>>

NextFind ==
    \/ \E title \in FindTitles, author \in FindAuthors, remote \in BOOLEAN,
          key \in BOOLEAN : FindRejected(title, author, remote, key)
    \/ \E title \in FindTitles, author \in FindAuthors, remote \in BOOLEAN,
          remoteOk \in BOOLEAN : FindBooksLl(title, author, remote, remoteOk)

SpecFind == InitFind /\ [][NextFind]_vars


-----------------------------------------------------------------------------
(* Properties of find_books_ll (checked under SpecFind).                   *)

FindWords == WordSet(Norm(ll.title))

\* both exact lookups of the request miss
ExactLookupsMiss ==
    /\ ~HasKey(ll.title_author_map,
               Strip(Norm(ll.title) \o <<" ">> \o Norm(ll.author)))
    /\ ~HasKey(ll.title_map, Norm(ll.title))

\* the by_title entries that share a word with the query and score at
\* least one half
IsCandidateKey(i) ==
    LET K == WordSet(ll.title_map[i].k)
        n == Cardinality(FindWords \cap K)
        longer == IF Cardinality(FindWords) >= Cardinality(K)
                  THEN Cardinality(FindWords) ELSE Cardinality(K)
    IN n > 0 /\ 2 * n >= longer

CandidateKeys == {ll.title_map[i].k : i \in {j \in DOMAIN ll.title_map : IsCandidateKey(j)}}

\* score of the first entry is at least the score of the second
NotBelow(a, b) == a.score.inter * b.score.longer >= b.score.inter * a.score.longer

RECURSIVE ItemsInOrder(_)
ItemsInOrder(scored) ==
    IF scored = <<>> THEN <<>>
    ELSE Head(scored).items \o ItemsInOrder(Tail(scored))

-----------------------------------------------------------------------------
(* The persistent cache with several users (backend.py:13-45, 238-270).    *)

\* usernames as they arrive in the URL of /api/get_books/<username>:
\* "a_", "a@" and "b"
UserNames == {<<"a", "_">>, <<"a", "@">>, <<"b">>}

UserPaths ==
    {CachePathFor(u) : u \in UserNames} \cup {TmpPathFor(u) : u \in UserNames}

InitUsers ==
    /\ now = 0
    /\ fs = [p \in UserPaths |-> Absent]
    /\ proc = [p \in Procs |-> IdleProc]
    /\ cg = CgIdle
    /\ mt = MtIdle
    /\ OthersIdle

NextUsers ==
    \/ Tick
    \/ \E p \in Procs, u \in UserNames, ttl \in TTLs, rq \in BOOLEAN :
          GetBooksStart(p, u, ttl, rq)
    \/ \E p \in Procs, b \in BookLists : CollectOk(p, b)
    \/ \E p \in Procs : CollectRaises(p)
    \/ \E p \in Procs : WriteCacheOpen(p)
    \/ \E p \in Procs : WriteCacheDump(p)
    \/ \E p \in Procs : WriteCacheClose(p)
    \/ \E p \in Procs : WriteCacheReplace(p)
    \/ \E p \in Procs : Respond(p, TRUE)
    \/ \E p \in Procs : Finish(p)

SpecUsers == InitUsers /\ [][NextUsers]_vars


-----------------------------------------------------------------------------
(* Properties of the cache with several users (checked under SpecUsers).   *)

\* the steps of _write_cache
WriteStages == {"write", "opened", "dumping", "dumped"}

\* C17: for any two distinct usernames, a cache write for one never
\* changes what a cache read for the other returns.
C17_PerUserEntries ==
    [][\A p \in Procs : \A u \in UserNames :
          (proc[p].pc \in WriteStages /\ proc'[p] # proc[p]
             /\ proc[p].user # u)
          => ReadCache(u)' = ReadCache(u)]_vars


-----------------------------------------------------------------------------
(* The choice of the pagination algorithm (checked under SpecCollector).   *)

\* C21: whenever the count cannot be read from the first page, because the
\* marker is absent or because it is present with an unparseable number,
\* get_books paginates in exploratory mode and returns the records found.
C21_FallbackChoice ==
    (FirstAnswered /\ cg.stats[1] = 200 /\ cg.marker \in {"absent", "garbled"})
       => /\ cg.mode = "explore"
          /\ cg.pc = "returned" => cg.result = cg.books


-----------------------------------------------------------------------------
(* Concurrent writers of one user's cache file.                            *)
(*                                                                         *)
(* Two requests for the same user that both miss the cache both call       *)
(* _write_cache (backend.py:259-270) with the same temp path               *)
(* p.with_suffix(".tmp").  Here the directory maps a path to an inode and  *)
(* an open file is a handle on an inode, as on a POSIX file system:        *)
(*   fs.dir   path -> inode number, NoInode when the path does not exist   *)
(*   fs.ino   inode number -> content                                      *)
(* proc[w] is a writer; proc[Reader] is a request that reads the cache.    *)

NumWriters == 2
Writers == 1..NumWriters
Reader == 0
NoInode == 0

\* the cache file, the temp file and one unlinked file per open handle
Inodes == 1..(NumWriters + 2)

RaceUser == CHOOSE u \in Users : TRUE

IdleWriter == [pc |-> "idle", h |-> NoInode, data |-> Absent]

\* inodes that a path or an open handle refers to
InodesInUse(dir, pr) ==
    {dir[p] : p \in DOMAIN dir} \cup {pr[w].h : w \in Writers}

\* the inode a newly created file gets
FreeInode(dir, pr) ==
    CHOOSE i \in Inodes :
        /\ i \notin InodesInUse(dir, pr)
        /\ \A j \in Inodes : j < i => j \in InodesInUse(dir, pr)

\* an inode without a name and without a handle is gone
Reclaim(dir, ino, pr) ==
    [i \in Inodes |-> IF i \in InodesInUse(dir, pr) THEN ino[i] ELSE Absent]

\* what open(p) + json.load's read find at the cache path
ContentAt(path) ==
    IF fs.dir[path] = NoInode THEN Absent ELSE fs.ino[fs.dir[path]]

InitWriters ==
    /\ now = 0
    /\ \E c \in {Absent, EntryData(RaceUser, 0, <<>>)} :
         fs = [dir |-> [p \in Paths |->
                          IF p = CachePathFor(RaceUser) /\ c # Absent
                          THEN 1 ELSE NoInode],
               ino |-> [i \in Inodes |-> IF i = 1 THEN c ELSE Absent]]
    /\ proc = [t \in Writers \cup {Reader} |->
                 IF t = Reader THEN [pc |-> "reader", obs |-> None, reads |-> 0]
                 ELSE IdleWriter]
    /\ cg = CgIdle
    /\ mt = MtIdle
    /\ OthersIdle

\* the request missed the cache and its own collector fetch returned books;
\* _write_cache builds data (backend.py:262-266)
WriterBegin(w, books) ==
    /\ proc[w].pc = "idle"
    /\ proc' = [proc EXCEPT ![w].pc = "write",
                   ![w].data = EntryData(RaceUser, now, books)]
    /\ UNCHANGED <<now, fs, cg, mt, nm, ll, px>>

\* tmp.open("w") (backend.py:267): creates the temp file, or truncates the
\* one that is there
WriterOpen(w) ==
    /\ proc[w].pc = "write"
    /\ LET tmp == TmpPathFor(RaceUser)
           i == IF fs.dir[tmp] = NoInode THEN FreeInode(fs.dir, proc)
                ELSE fs.dir[tmp]
       IN /\ fs' = [dir |-> [fs.dir EXCEPT ![tmp] = i],
                    ino |-> [fs.ino EXCEPT ![i] = Blank("empty")]]
          /\ proc' = [proc EXCEPT ![w].pc = "opened", ![w].h = i]
    /\ UNCHANGED <<now, cg, mt, nm, ll, px>>

\* json.dump has written part of the text through the handle
WriterDump(w) ==
    /\ proc[w].pc = "opened"
    /\ fs' = [fs EXCEPT !.ino[proc[w].h] = Blank("partial")]
    /\ proc' = [proc EXCEPT ![w].pc = "dumping"]
    /\ UNCHANGED <<now, cg, mt, nm, ll, px>>

\* another writer holds a handle on the same inode
SharedHandle(w) ==
    \E v \in Writers : v # w /\ proc[v].h = proc[w].h

\* json.dump has written the rest and the with-block closed the handle; when
\* another handle writes the same inode the bytes of the two writers overlay
\* each other, and the text is the writer's own or a mixture
WriterClose(w, mixed) ==
    /\ proc[w].pc = "dumping"
    /\ mixed => SharedHandle(w)
    /\ LET pr == [proc EXCEPT ![w].pc = "dumped", ![w].h = NoInode]
           ino == [fs.ino EXCEPT ![proc[w].h] =
                      IF mixed THEN Blank("partial") ELSE proc[w].data]
       IN /\ proc' = pr
          /\ fs' = [dir |-> fs.dir, ino |-> Reclaim(fs.dir, ino, pr)]
    /\ UNCHANGED <<now, cg, mt, nm, ll, px>>

\* tmp.replace(p) (backend.py:269): rename; FileNotFoundError when another
\* writer has already renamed the temp file away
WriterReplace(w) ==
    /\ proc[w].pc = "dumped"
    /\ LET tmp == TmpPathFor(RaceUser)
           p == CachePathFor(RaceUser)
       IN IF fs.dir[tmp] = NoInode
          THEN /\ proc' = [proc EXCEPT ![w].pc = "failed"]
               /\ fs' = fs
          ELSE LET dir == [fs.dir EXCEPT ![p] = fs.dir[tmp], ![tmp] = NoInode]
               IN /\ proc' = [proc EXCEPT ![w].pc = "written"]
                  /\ fs' = [dir |-> dir, ino |-> Reclaim(dir, fs.ino, proc)]
    /\ UNCHANGED <<now, cg, mt, nm, ll, px>>

\* the response has been sent
WriterFinish(w) ==
    /\ proc[w].pc \in {"written", "failed"}
    /\ proc' = [proc EXCEPT ![w] = IdleWriter]
    /\ UNCHANGED <<now, fs, cg, mt, nm, ll, px>>

\* a request reads the file at the cache path (backend.py:247-256): obs is
\* the text that open + json.load were given
ReaderRead ==
    /\ proc' = [proc EXCEPT ![Reader].obs = ContentAt(CachePathFor(RaceUser)),
                   ![Reader].reads = 1]
    /\ UNCHANGED <<now, fs, cg, mt, nm, ll, px>>

NextWriters ==
    \/ \E w \in Writers, books \in BookLists : WriterBegin(w, books)
    \/ \E w \in Writers : WriterOpen(w)
    \/ \E w \in Writers : WriterDump(w)
    \/ \E w \in Writers, mixed \in BOOLEAN : WriterClose(w, mixed)
    \/ \E w \in Writers : WriterReplace(w)
    \/ \E w \in Writers : WriterFinish(w)
    \/ ReaderRead

SpecWriters == InitWriters /\ [][NextWriters]_vars

\* C22: while any number of requests write a user's cache file, every read
\* of that file is given a complete entry, an old one or a new one, and
\* never an empty or half-written text.
C22_NoPartialRead ==
    proc[Reader].reads = 1
       => proc[Reader].obs.kind \notin {"empty", "partial"}


-----------------------------------------------------------------------------
(* The time to live of the catalog slot (checked under SpecSlot).          *)

\* the slot holds the snapshot of the last successful fetch, and that
\* fetch is no older than LL_CACHE_TTL
SnapshotWithinTtl ==
    /\ ll.hadGood
    /\ ll.data = ll.good
    /\ ll.fetched_at # NoTime
    /\ now <= ll.fetched_at + ll.ttl

\* C23: once a catalog snapshot has been fetched at time T, every non-forced
\* call of _get_ll_library at a time <= T + LL_CACHE_TTL returns that
\* snapshot without calling the library service, whatever the snapshot
\* contains; a forced call, or a call after T + LL_CACHE_TTL, calls the
\* library service.
C23_SlotTtl ==
    [][(ll.pc = "slot" /\ ll' # ll)
         => /\ (SnapshotWithinTtl /\ ~ll'.force)
                  => (ll'.last = "cached" /\ ll'.ret = ll.good)
            /\ (ll.hadGood /\ (ll'.force \/ now > ll.fetched_at + ll.ttl))
                  => ll'.last # "cached"]_vars


-----------------------------------------------------------------------------
(* Concurrent calls of _get_ll_library (backend.py:647-669).               *)
(*                                                                         *)
(* _ll_cache is a module-level dict shared by the threads of the server;   *)
(* _get_ll_library reads and writes it without a lock, one key at a time.  *)
(* ll.th[t] is the position of thread t inside the function.  dataBy and   *)
(* atBy record which fetch wrote each key, and saw records which fetches'  *)
(* values a call was given; no action reads them.                          *)

NumThreads == 2
MaxFetches == 2
SlotThreads == 1..NumThreads

RaceCatalogs == {<<SlotItemA>>, <<SlotItemA, SlotItemB>>}

IdleThread ==
    [pc |-> "idle", t |-> 0, force |-> FALSE, lib |-> NoSnapshot, fid |-> 0,
     sawAt |-> 0, sawData |-> 0, ret |-> NoSnapshot]

InitSlotRace ==
    /\ InitCache
    /\ cg = CgIdle
    /\ mt = MtIdle
    /\ nm = NmIdle
    /\ px = PxIdle
    /\ \E ttl \in LlCacheTtls :
         ll = [pc |-> "race", ttl |-> ttl, data |-> NoSnapshot,
               fetched_at |-> NoTime, dataBy |-> 0, atBy |-> 0,
               nfetch |-> 0, th |-> [t \in SlotThreads |-> IdleThread]]

RaceTick ==
    /\ ll.pc = "race"
    /\ Tick

\* now = datetime.now(timezone.utc) (backend.py:649)
RaceCall(t, force) ==
    /\ ll.pc = "race"
    /\ ll.th[t].pc = "idle"
    /\ ll' = [ll EXCEPT !.th[t] =
                [IdleThread EXCEPT !.pc = "check", !.t = now, !.force = force]]
    /\ UNCHANGED <<now, fs, proc, cg, mt, nm, px>>

\* the two if statements (backend.py:650-651)
RaceCheck(t) ==
    /\ ll.pc = "race"
    /\ ll.th[t].pc = "check"
    /\ ll' = IF SlotFresh(ll.th[t].force, ll.data, ll.fetched_at,
                          ll.th[t].t, ll.ttl)
             THEN [ll EXCEPT !.th[t].pc = "return", !.th[t].sawAt = ll.atBy]
             ELSE [ll EXCEPT !.th[t].pc = "call"]
    /\ UNCHANGED <<now, fs, proc, cg, mt, nm, px>>

\* return _ll_cache["data"] (backend.py:652)
RaceReturn(t) ==
    /\ ll.pc = "race"
    /\ ll.th[t].pc = "return"
    /\ ll' = [ll EXCEPT !.th[t].pc = "done", !.th[t].ret = ll.data,
                        !.th[t].sawData = ll.dataBy]
    /\ UNCHANGED <<now, fs, proc, cg, mt, nm, px>>

\* get_all_books and the computation of ll_library (backend.py:655-662);
\* when the call raises, the except branch returns the stored data
RaceFetch(t, outcome, catalog) ==
    /\ ll.pc = "race"
    /\ ll.th[t].pc = "call"
    /\ ll.nfetch < MaxFetches
    /\ ll' = IF outcome = "raises"
             THEN [ll EXCEPT !.th[t].pc = "done", !.th[t].ret = ll.data]
             ELSE [ll EXCEPT !.nfetch = ll.nfetch + 1,
                             !.th[t].pc = "wdata",
                             !.th[t].fid = ll.nfetch + 1,
                             !.th[t].lib = LlLibraryOf(outcome, catalog)]
    /\ UNCHANGED <<now, fs, proc, cg, mt, nm, px>>

\* _ll_cache["data"] = ll_library (backend.py:664)
RaceWriteData(t) ==
    /\ ll.pc = "race"
    /\ ll.th[t].pc = "wdata"
    /\ ll' = [ll EXCEPT !.data = ll.th[t].lib, !.dataBy = ll.th[t].fid,
                        !.th[t].pc = "wat"]
    /\ UNCHANGED <<now, fs, proc, cg, mt, nm, px>>

\* _ll_cache["fetched_at"] = now; return ll_library (backend.py:665-666)
RaceWriteAt(t) ==
    /\ ll.pc = "race"
    /\ ll.th[t].pc = "wat"
    /\ ll' = [ll EXCEPT !.fetched_at = ll.th[t].t, !.atBy = ll.th[t].fid,
                        !.th[t].pc = "done", !.th[t].ret = ll.th[t].lib]
    /\ UNCHANGED <<now, fs, proc, cg, mt, nm, px>>

\* the caller has the value
RaceDone(t) ==
    /\ ll.pc = "race"
    /\ ll.th[t].pc = "done"
    /\ ll' = [ll EXCEPT !.th[t] = IdleThread]
    /\ UNCHANGED <<now, fs, proc, cg, mt, nm, px>>

NextSlotRace ==
    \/ RaceTick
    \/ \E t \in SlotThreads, force \in BOOLEAN : RaceCall(t, force)
    \/ \E t \in SlotThreads : RaceCheck(t)
    \/ \E t \in SlotThreads : RaceReturn(t)
    \/ \E t \in SlotThreads, outcome \in AllBooksOutcomes,
          catalog \in RaceCatalogs : RaceFetch(t, outcome, catalog)
    \/ \E t \in SlotThreads : RaceWriteData(t)
    \/ \E t \in SlotThreads : RaceWriteAt(t)
    \/ \E t \in SlotThreads : RaceDone(t)

SpecSlotRace == InitSlotRace /\ [][NextSlotRace]_vars

\* C24: under any interleaving of concurrent _get_ll_library calls, a call
\* that is answered from the slot saw a data value and a fetched_at value
\* that were written by the same fetch.
C24_SlotAtomic ==
    \A t \in SlotThreads :
        (ll.th[t].pc = "done" /\ ll.th[t].sawAt # 0)
           => ll.th[t].sawData = ll.th[t].sawAt


-----------------------------------------------------------------------------
(* LazyLibrarianClient.queue_book (modules/lazylibrarian.py:499-545) over  *)
(* get_wanted (617-629) and _make_request (26-77).                         *)

MaxWanted == 2

AsciiUpper == <<"A", "D", "E", "K", "N", "O", "P", "S", "T", "W">>
AsciiLower == <<"a", "d", "e", "k", "n", "o", "p", "s", "t", "w">>

\* str.lower() on the letters of the status texts
LowerAscii(ch) ==
    IF \E i \in DOMAIN AsciiUpper : AsciiUpper[i] = ch
    THEN AsciiLower[CHOOSE i \in DOMAIN AsciiUpper : AsciiUpper[i] = ch]
    ELSE ch

\* status.strip().lower() (lazylibrarian.py:522)
StatusNorm(text) == [i \in DOMAIN Strip(text) |-> LowerAscii(Strip(text)[i])]

\* sub in s, for strings
Contains(s, sub) ==
    \E i \in 0..(Len(s) - Len(sub)) : SubSeq(s, i + 1, i + Len(sub)) = sub

\* a variant of the test that knows "open" only
IsWantedStatusOpenOnly(status_norm) ==
    Contains(status_norm, <<"o", "p", "e", "n">>)

\* any(k in status_norm for k in ("open", "want", "wanted"))
\* (lazylibrarian.py:524-526)
IsWantedStatus(status_norm) ==
    \/ Contains(status_norm, <<"o", "p", "e", "n">>)
    \/ Contains(status_norm, <<"w", "a", "n", "t">>)
    \/ Contains(status_norm, <<"w", "a", "n", "t", "e", "d">>)

\* a value of a status key: a string (str), or a number (~str); a missing
\* key is the empty string
StrVal(text) == [str |-> TRUE, text |-> text]
NumVal == [str |-> FALSE, text |-> <<>>]
NoVal == StrVal(<<>>)

\* truth value of a status value: "" is false, a number (not 0) is true
ValTruthy(v) == ~v.str \/ v.text # <<>>

\* an element of the wanted list: a dict with its id keys ("" when the key
\* is missing) and its status keys, or something that is no dict
Wanted(BookID, bookid, id, Status, status) ==
    [dict |-> TRUE, BookID |-> BookID, bookid |-> bookid, id |-> id,
     Status |-> Status, status |-> status]
NoDict == [Wanted("", "", "", NoVal, NoVal) EXCEPT !.dict = FALSE]

\* status = w.get("Status") or w.get("status") or "" (lazylibrarian.py:520)
StatusOfWanted(w) ==
    IF ValTruthy(w.Status) THEN w.Status
    ELSE IF ValTruthy(w.status) THEN w.status
    ELSE NoVal

\* the loop over ("BookID", "bookid", "id") finds the book id under one of
\* the keys (lazylibrarian.py:518-519)
HasBookId(w, book_id) ==
    \E v \in {w.BookID, w.bookid, w.id} : v # "" /\ v = book_id

\* the element makes queue_book return without queueing
\* (lazylibrarian.py:519-534)
AlreadyWanted(w, book_id) ==
    /\ HasBookId(w, book_id)
    /\ StatusOfWanted(w).str
    /\ IsWantedStatus(StatusNorm(StatusOfWanted(w).text))

WantedElements ==
    { Wanted("7", "", "", StrVal(<<"O", "p", "e", "n">>), NoVal),
      Wanted("", "7", "", NoVal, StrVal(<<" ", "W", "A", "N", "T", "E", "D">>)),
      Wanted("8", "", "7", StrVal(<<"w", "a", "n", "t">>), NoVal),
      Wanted("7", "", "", StrVal(<<"S", "k", "i", "p", "p", "e", "d">>), NoVal),
      Wanted("7", "", "", StrVal(<<"S", "k", "i", "p", "p", "e", "d">>),
             StrVal(<<"o", "p", "e", "n">>)),
      Wanted("7", "", "", NumVal, NoVal),
      Wanted("7", "", "", NoVal, NoVal),
      Wanted("8", "", "", StrVal(<<"O", "p", "e", "n">>), NoVal),
      NoDict }

\* What get_wanted returns:
\*   "list"    {"success": True, "data": [...]} (the service sent an array)
\*   "error"   {"success": False, "error": ...}: no "data" key
\*   "raises"  get_wanted raises (a client that does not catch)
WantedResponses ==
    {[kind |-> "list", items |-> xs] :
        xs \in UNION {[1..n -> WantedElements] : n \in 0..MaxWanted}}
    \cup {[kind |-> k, items |-> <<>>] : k \in {"error", "raises"}}

QueueBookIds == {"7"}

\* cmds is the sequence of commands sent to the library service
QbStart(book_id, wanted) ==
    [pc |-> "queue_book", book_id |-> book_id, wanted |-> wanted, i |-> 0,
     cmds |-> <<>>, ret |-> [success |-> FALSE, message |-> "none"]]

InitQueue ==
    /\ InitCache
    /\ cg = CgIdle
    /\ mt = MtIdle
    /\ nm = NmIdle
    /\ ll = LlIdle
    /\ \E book_id \in QueueBookIds, wanted \in WantedResponses :
          px = QbStart(book_id, wanted)

\* wanted = self.get_wanted(); wanted_list = ...; isinstance(wanted_list,
\* list) (lazylibrarian.py:514-516)
QueueGetWanted ==
    /\ px.pc = "queue_book"
    /\ px' = [px EXCEPT !.cmds = Append(px.cmds, "getWanted"),
                !.pc = IF px.wanted.kind = "list" THEN "scan" ELSE "send"]
    /\ UNCHANGED <<now, fs, proc, cg, mt, nm, ll>>

\* one iteration of `for w in wanted_list` (lazylibrarian.py:517-539);
\* w.get on something that is no dict raises, and the except branch goes on
\* to the queueBook request
QueueScan ==
    /\ px.pc = "scan"
    /\ px.i < Len(px.wanted.items)
    /\ LET w == px.wanted.items[px.i + 1] IN
       px' = IF ~w.dict THEN [px EXCEPT !.pc = "send"]
             ELSE IF AlreadyWanted(w, px.book_id)
             THEN [px EXCEPT !.pc = "returned",
                      !.ret = [success |-> TRUE,
                               message |-> "Already wanted (Open)"]]
             ELSE [px EXCEPT !.i = px.i + 1]
    /\ UNCHANGED <<now, fs, proc, cg, mt, nm, ll>>

\* the loop is over
QueueScanEnd ==
    /\ px.pc = "scan"
    /\ px.i = Len(px.wanted.items)
    /\ px' = [px EXCEPT !.pc = "send"]
    /\ UNCHANGED <<now, fs, proc, cg, mt, nm, ll>>

\* result = self._make_request("queueBook", ...); return result
\* (lazylibrarian.py:543-545); _make_request sends one GET and turns a
\* failure into {"success": False, ...} (lines 47-77)
QueueSend(ok) ==
    /\ px.pc = "send"
    /\ px' = [px EXCEPT !.pc = "returned",
                !.cmds = Append(px.cmds, "queueBook"),
                !.ret = [success |-> ok,
                         message |-> IF ok THEN "OK" ELSE "error"]]
    /\ UNCHANGED <<now, fs, proc, cg, mt, nm, ll>>

NextQueue ==
    \/ QueueGetWanted
    \/ QueueScan
    \/ QueueScanEnd
    \/ \E ok \in BOOLEAN : QueueSend(ok)

SpecQueue == InitQueue /\ [][NextQueue]_vars

\* the number of queueBook commands sent
QueueBookCommands == Len(SelectSeq(px.cmds, LAMBDA c : c = "queueBook"))

\* element i of the wanted list holds the book id with a status that,
\* lower-cased, contains "open" or "want"
ListedAsWanted(wanted, book_id, i) ==
    LET w == wanted.items[i]
        s == StatusOfWanted(w)
    IN /\ w.dict
       /\ \E v \in {w.BookID, w.bookid, w.id} : v = book_id
       /\ s.str
       /\ \/ Contains(StatusNorm(s.text), <<"o", "p", "e", "n">>)
          \/ Contains(StatusNorm(s.text), <<"w", "a", "n", "t">>)

\* the wanted list holds such an element, and the list can be inspected up
\* to it: it is a list, and the elements before it are dicts
FoundAsWanted(wanted, book_id) ==
    /\ wanted.kind = "list"
    /\ \E i \in DOMAIN wanted.items :
          /\ ListedAsWanted(wanted, book_id, i)
          /\ \A j \in 1..(i - 1) : wanted.items[j].dict

-----------------------------------------------------------------------------
(* The maintenance script that removes authors without books               *)
(* (src/remove_empty_authors.py:21-32) over a ThreadPoolExecutor.          *)

MaxAuthors == 7

\* ThreadPoolExecutor(max_workers=6)
MaxWorkers == 6

\* an element of authors["data"]; HaveBooks is NoCount when the key is
\* missing
NoCount == -1
AuthorRow(AuthorID, Reason, HaveBooks) ==
    [dict |-> TRUE, AuthorID |-> AuthorID, Reason |-> Reason,
     HaveBooks |-> HaveBooks]

SeriesReason == <<"S", "e", "r", "i", "e", "s", ":", "x">>
OtherReason == <<"A", "d", "d", "e", "d">>

\* the rows that come before the removable authors in the index
KeptRows ==
    << AuthorRow(101, SeriesReason, 1),
       AuthorRow(102, OtherReason, 0),
       AuthorRow(103, SeriesReason, NoCount),
       AuthorRow(104, <<>>, 0),
       [AuthorRow(105, SeriesReason, 0) EXCEPT !.dict = FALSE] >>

AuthorIndexes ==
    {KeptRows \o [i \in 1..n |-> AuthorRow(i, SeriesReason, 0)] :
        n \in 0..MaxAuthors}

\* the test of lines 25-28 for one element
IsRemovable(a) ==
    /\ a.dict
    /\ a.Reason # <<>>
    /\ Contains(a.Reason, <<"S", "e", "r", "i", "e", "s">>)
    /\ ~((IF a.HaveBooks = NoCount THEN 1 ELSE a.HaveBooks) > 0)

\* the loop of lines 23-29
RECURSIVE DelAuthorsFrom(_, _)
DelAuthorsFrom(rows, i) ==
    IF i > Len(rows) THEN <<>>
    ELSE IF IsRemovable(rows[i])
    THEN <<rows[i].AuthorID>> \o DelAuthorsFrom(rows, i + 1)
    ELSE DelAuthorsFrom(rows, i + 1)

\* a variant of the pool without a limit
WorkerAvailableAlways(running) == TRUE

\* the pool starts a task when fewer than max_workers threads are busy
WorkerAvailable(running) == Cardinality(running) < MaxWorkers

\* what a task can end with: remove_author returned the answer ("ok"),
\* returned {"success": False, ...} after a transport error ("failed"), or
\* raised ("raised"); the exception stays in the future of the task
TaskOutcomes == {"ok", "failed", "raised"}

\* queue: submitted tasks no worker has taken; running: the removals in
\* flight; calls: the removeAuthor requests sent, by author id; peak is the
\* largest number of removals that were in flight together
PoolStart(rows) ==
    [pc |-> "select", rows |-> rows, del_authors |-> <<>>, queue |-> <<>>,
     running |-> {}, calls |-> <<>>, outcome |-> <<>>, peak |-> 0]

InitPool ==
    /\ now = 0
    /\ fs = [p \in Paths |-> Absent]
    /\ cg = CgIdle
    /\ mt = MtIdle
    /\ OthersIdle
    /\ \E rows \in AuthorIndexes : proc = PoolStart(rows)

\* del_authors is computed (lines 23-29)
PoolSelect ==
    /\ proc.pc = "select"
    /\ proc' = [proc EXCEPT !.pc = "map",
                   !.del_authors = DelAuthorsFrom(proc.rows, 1)]
    /\ UNCHANGED <<now, fs, cg, mt, nm, ll, px>>

\* executor.map(ll.remove_author, del_authors) submits one task per
\* element and drops the iterator of the results (line 32)
PoolMap ==
    /\ proc.pc = "map"
    /\ proc' = [proc EXCEPT !.pc = "pool", !.queue = proc.del_authors]
    /\ UNCHANGED <<now, fs, cg, mt, nm, ll, px>>

\* a worker takes the next task and sends the removeAuthor request
WorkerTake ==
    /\ proc.pc = "pool"
    /\ proc.queue # <<>>
    /\ WorkerAvailable(proc.running)
    /\ LET id == Head(proc.queue)
           running == proc.running \cup {Len(proc.calls) + 1}
       IN proc' = [proc EXCEPT !.queue = Tail(proc.queue),
                      !.running = running,
                      !.calls = Append(proc.calls, id),
                      !.outcome = Append(proc.outcome, "none"),
                      !.peak = IF Cardinality(running) > proc.peak
                               THEN Cardinality(running) ELSE proc.peak]
    /\ UNCHANGED <<now, fs, cg, mt, nm, ll, px>>

\* the removal of task k is over
WorkerDone(k, outcome) ==
    /\ proc.pc = "pool"
    /\ k \in proc.running
    /\ proc' = [proc EXCEPT !.running = proc.running \ {k},
                   !.outcome[k] = outcome]
    /\ UNCHANGED <<now, fs, cg, mt, nm, ll, px>>

\* the with block ends when every task is over (shutdown(wait=True)); no
\* result is read, so no exception of a task is raised here
PoolExit ==
    /\ proc.pc = "pool"
    /\ proc.queue = <<>>
    /\ proc.running = {}
    /\ proc' = [proc EXCEPT !.pc = "exited"]
    /\ UNCHANGED <<now, fs, cg, mt, nm, ll, px>>

NextPool ==
    \/ PoolSelect
    \/ PoolMap
    \/ WorkerTake
    \/ \E k \in 1..MaxAuthors, outcome \in TaskOutcomes : WorkerDone(k, outcome)
    \/ PoolExit

SpecPool == InitPool /\ [][NextPool]_vars

\* the number of removeAuthor requests sent for an author id
CallsFor(id) == Cardinality({k \in DOMAIN proc.calls : proc.calls[k] = id})

\* the author ids the script selects
Selected == {proc.del_authors[i] : i \in DOMAIN proc.del_authors}

\* C27: the maintenance task sends exactly one remove_author call per
\* selected author id, never has more than 6 removals in flight at the same
\* time, and a removal that fails neither stops the remaining removals nor
\* reaches the caller: the script runs to its end.
C27_BoundedRemoval ==
    proc.pc \in {"pool", "exited"} =>
       /\ Cardinality(proc.running) <= MaxWorkers
       /\ \A k \in DOMAIN proc.calls :
             proc.calls[k] \in Selected /\ CallsFor(proc.calls[k]) = 1
       /\ proc.pc = "exited" => \A id \in Selected : CallsFor(id) = 1

\* more authors than workers were removed, six removals were in flight
\* together, and the removals after a failed and a raising one were made
C27_Witness ==
    /\ proc.pc = "exited"
    /\ Len(proc.del_authors) > MaxWorkers
    /\ proc.peak = MaxWorkers
    /\ proc.outcome[1] = "raised"
    /\ proc.outcome[2] = "failed"
    /\ \A k \in 3..Len(proc.calls) : proc.outcome[k] = "ok"
    /\ Len(proc.calls) = Len(proc.del_authors)


-----------------------------------------------------------------------------
(* Rejected match_books requests (checked under Spec).                     *)

\* C29: whenever match_books answers with a 400 error (username missing, or
\* LL_API_KEY not configured), it has made no collector call and has left
\* the user's persistent cache entry and the catalog slot unchanged.
C29_RejectedNoEffects ==
    \A p \in Procs :
        (proc[p].pc = "done" /\ proc[p].handler = "match_books"
           /\ proc[p].resp.status = 400)
        => /\ proc[p].coll = "none"
           /\ proc[p].user # NoUser
                 => fs[CachePathFor(proc[p].user)] = proc[p].seen
           /\ ll = LlIdle


-----------------------------------------------------------------------------
(* POST /api/refresh_books/<username> (backend.py:273-480).                *)
(*                                                                         *)
(* mt is the request, ll the catalog slot, fs the persistent cache.        *)
(* mt.cmds is the sequence of commands sent to the library service and     *)
(* mt.fetched the list the collector returned; mt.fresh records whether    *)
(* the slot answered _build_ll_index without a fetch.                      *)

RefreshUser == CHOOSE u \in Users : TRUE

\* what the "books" key of a cache file holds: a JSON array of scraped
\* (url, title, author) records, or a JSON array of match entries (objects);
\* the empty array is the same text for both
Scraped(books) ==
    [shape |-> IF books = <<>> THEN "empty" ELSE "records", items |-> books]
MatchResults(results) ==
    [shape |-> IF results = <<>> THEN "empty" ELSE "entries",
     items |-> results]

\* two values of a "books" key are the same JSON text
SamePayload(x, y) == x.shape = y.shape /\ x.items = y.items

RefreshInputs ==
    { <<>>,
      <<Book(<<"a">>, <<"c">>)>>,
      <<Book(<<"!">>, <<>>)>>,
      <<Book(<<"B">>, <<>>), Book(<<"a">>, <<"c">>)>>,
      <<Book(<<"a">>, <<"c">>), Book(<<"c">>, <<>>), Book(<<"b">>, <<"c">>)>> }

RfStart(key, site, catalog, types, use_library) ==
    [pc |-> "refresh", key |-> key, site |-> site, fetched |-> <<>>,
     collects |-> 0, catalog |-> catalog, types |-> types,
     use_library |-> use_library, i |-> 0, title_author_map |-> <<>>,
     results |-> <<>>, cmds |-> <<>>, fresh |-> FALSE, status |-> 0,
     served |-> Scraped(<<>>)]

\* the slot when the request arrives: empty, or holding the catalog since
\* time 0
SlotStates(catalog) ==
    {LlStart(ttl) : ttl \in LlCacheTtls}
    \cup {[LlStart(ttl) EXCEPT !.data = Snapshot(catalog), !.fetched_at = 0,
              !.good = Snapshot(catalog), !.hadGood = TRUE] :
            ttl \in LlCacheTtls}

InitRefresh ==
    /\ InitCache
    /\ cg = CgIdle
    /\ nm = NmIdle
    /\ px = PxIdle
    /\ \E catalog \in SlotCatalogs :
         /\ ll \in SlotStates(catalog)
         /\ \E key \in BOOLEAN, site \in RefreshInputs, types \in TypeLists,
               use_library \in BOOLEAN :
               mt = RfStart(key, site, catalog, types, use_library)

\* LL_API_KEY is not configured (backend.py:285-291)
RefreshReject ==
    /\ mt.pc = "refresh"
    /\ ~mt.key
    /\ mt' = [mt EXCEPT !.pc = "done", !.status = 400]
    /\ UNCHANGED <<now, fs, proc, cg, nm, ll, px>>

\* books = sg.get_books() or [] (backend.py:293-294); an exception of the
\* collector leaves the handler
RefreshCollect(ok) ==
    /\ mt.pc = "refresh"
    /\ mt.key
    /\ mt' = IF ok
             THEN [mt EXCEPT !.pc = "index", !.collects = mt.collects + 1,
                             !.fetched = mt.site]
             ELSE [mt EXCEPT !.pc = "done", !.collects = mt.collects + 1,
                             !.status = 500]
    /\ UNCHANGED <<now, fs, proc, cg, nm, ll, px>>

\* title_map, title_author_map = _build_ll_index(ll_client)
\* (backend.py:301, 673-697) over _get_ll_library(ll_client, force=False)
RefreshIndex(outcome) ==
    /\ mt.pc = "index"
    /\ LET fresh == SlotFresh(FALSE, ll.data, ll.fetched_at, now, ll.ttl)
           a == IF fresh
                THEN [data |-> ll.data, fetched_at |-> ll.fetched_at,
                      ret |-> ll.data]
                ELSE SlotAfterFetch(ll.data, ll.fetched_at, now, outcome,
                                    mt.catalog)
           ix == BuildLlIndex(a.ret.items)
       IN /\ ll' = [ll EXCEPT !.data = a.data, !.fetched_at = a.fetched_at,
                       !.ret = a.ret]
          /\ mt' = [mt EXCEPT !.pc = "loop", !.fresh = fresh,
                       !.title_author_map = ix.title_author_map,
                       !.cmds = IF fresh THEN mt.cmds
                                ELSE Append(mt.cmds, "getAllBooks")]
    /\ UNCHANGED <<now, fs, proc, cg, nm, px>>

\* (item.get("BookName") or "").strip().lower() (backend.py:343)
StripLower(s) == [i \in DOMAIN Strip(s) |-> Lower(Strip(s)[i])]

\* the title_map built for one record (backend.py:342-345)
RECURSIVE RecordTitleMapFrom(_, _, _)
RecordTitleMapFrom(lib, i, tm) ==
    IF i > Len(lib) THEN tm
    ELSE LET name == StripLower(lib[i].BookName)
         IN RecordTitleMapFrom(lib, i + 1,
               IF name # <<>> THEN SetDefaultAppend(tm, name, lib[i]) ELSE tm)

\* ll_library of one record (backend.py:326-349): the catalog when
\* use_library is set and getAllBooks answered with it, else []
RecordLibrary(use_library, outcome, catalog) ==
    IF use_library /\ outcome = "list" THEN catalog ELSE <<>>

\* the heuristic key of lines 353-355
LocalKey(title, author) == StripLower(title \o <<" ">> \o author)

\* the tiers of refresh_books (backend.py:371-389)
RefreshMatchedItems(title, author, tm, tam) ==
    MatchedItems(title, author, tm, tam)

\* keys a dict does not have are "" / <<>> / FALSE here
RefreshEntry(b, matches, items, method, possible, error) ==
    [title |-> b[2], author |-> b[3], storygraph_url |-> b[1],
     matches |-> matches, library_matches |-> items,
     match_method |-> method, search_possible |-> possible, error |-> error]

\* {"matched": False, "raw": None} (backend.py:463-464)
NotMatched == [matched |-> FALSE, status |-> <<>>, raw |-> <<>>]

\* a variant of the unmatched branch that sends nothing
FindWhenUnmatchedNever(title) == <<>>

\* search_res = ll_client.find_book(title) (backend.py:431-432)
FindWhenUnmatched(title) == <<"findBook">>

\* one iteration of `for i, b in enumerate(books[:max_books])`
\* (backend.py:305-468); found is whether find_book returned
RefreshRecord(outcome, found) ==
    /\ mt.pc = "loop"
    /\ mt.i < Len(mt.fetched) /\ mt.i < MaxBooksDefault
    /\ LET b == mt.fetched[mt.i + 1]
           lib == RecordLibrary(mt.use_library, outcome, mt.catalog)
           tm == RecordTitleMapFrom(lib, 1, <<>>)
           sent == IF mt.use_library THEN Append(mt.cmds, "getAllBooks")
                   ELSE mt.cmds
           local == /\ lib # <<>>
                    /\ tm # <<>>
                    /\ HasKey(tm, LocalKey(b[2], b[3]))
           items == RefreshMatchedItems(b[2], b[3], tm, mt.title_author_map)
           types == TypesOf(mt.types)
       IN mt' =
            IF local
            THEN [mt EXCEPT !.i = mt.i + 1, !.cmds = sent]
            ELSE IF items # <<>>
            THEN [mt EXCEPT !.i = mt.i + 1, !.cmds = sent,
                    !.results = Append(mt.results,
                       RefreshEntry(b, [t \in types |-> Verdict(items, t)],
                                    items, "library", FALSE, FALSE))]
            ELSE [mt EXCEPT !.i = mt.i + 1,
                    !.cmds = sent \o FindWhenUnmatched(b[2]),
                    !.results = Append(mt.results,
                       IF found
                       THEN RefreshEntry(b, [t \in types |-> NotMatched],
                                         <<>>, "", TRUE, FALSE)
                       ELSE RefreshEntry(b, <<>>, <<>>, "", FALSE, TRUE))]
    /\ UNCHANGED <<now, fs, proc, cg, nm, ll, px>>

\* _write_cache(username, results) and the response (backend.py:470-480)
RefreshWrite ==
    /\ mt.pc = "loop"
    /\ ~(mt.i < Len(mt.fetched) /\ mt.i < MaxBooksDefault)
    /\ fs' = [fs EXCEPT ![CachePathFor(RefreshUser)] =
                 EntryData(RefreshUser, now, MatchResults(mt.results))]
    /\ mt' = [mt EXCEPT !.pc = "done", !.status = 200]
    /\ UNCHANGED <<now, proc, cg, nm, ll, px>>

\* a later GET /api/get_books/<username> is answered from the cache
\* (backend.py:23-38)
RefreshThenGetBooks(ttl) ==
    /\ mt.pc = "done"
    /\ mt.status = 200
    /\ CacheLookup(ReadCache(RefreshUser), now, ttl) = "hit"
    /\ mt' = [mt EXCEPT !.pc = "served",
                 !.served = ReadCache(RefreshUser).books]
    /\ UNCHANGED <<now, fs, proc, cg, nm, ll, px>>

NextRefresh ==
    \/ RefreshReject
    \/ \E ok \in BOOLEAN : RefreshCollect(ok)
    \/ \E outcome \in AllBooksOutcomes : RefreshIndex(outcome)
    \/ \E outcome \in AllBooksOutcomes, found \in BOOLEAN :
          RefreshRecord(outcome, found)
    \/ RefreshWrite
    \/ \E ttl \in TTLs : RefreshThenGetBooks(ttl)

SpecRefresh == InitRefresh /\ [][NextRefresh]_vars


-----------------------------------------------------------------------------
(* Properties of refresh_books (checked under SpecRefresh).                *)

\* the commands of one kind the request has sent
SentCmds(cmd) == Len(SelectSeq(mt.cmds, LAMBDA c : c = cmd))

\* C25: refresh_books does not search automatically: for a record with no
\* library match it sends no findBook or searchBook command; it reports
\* matched=false for every requested type and flags the entry
\* search_possible.
C25_NoAutoSearch ==
    /\ SentCmds("findBook") = 0
    /\ SentCmds("searchBook") = 0
    /\ \A k \in DOMAIN mt.results :
          mt.results[k].library_matches = <<>> =>
             /\ mt.results[k].search_possible
             /\ \A t \in TypesOf(mt.types) :
                   mt.results[k].matches[t].matched = FALSE

\* C28: while it handles one request, whatever the number of records, the
\* full catalog (getAllBooks) is requested from the library service at most
\* once, and not at all when the catalog slot is fresh and no refresh is
\* forced.
C28_OneCatalogFetch ==
    /\ SentCmds("getAllBooks") <= 1
    /\ mt.fresh => SentCmds("getAllBooks") = 0

\* C30: after a request, the books list stored in the user's cache entry,
\* and hence the list a cached get_books returns, is the list of scraped
\* (url, title, author) records of the most recent collector fetch.
C30_CachePayload ==
    (mt.pc \in {"done", "served"} /\ mt.status = 200) =>
       LET e == fs[CachePathFor(RefreshUser)] IN
       /\ e.kind = "object"
       /\ SamePayload(e.books, Scraped(mt.fetched))
       /\ mt.pc = "served" => SamePayload(mt.served, Scraped(mt.fetched))

====
